---- MODULE Spec2Model ----
(***************************************************************************)
(* InStory reader (src/app/story/[id]/StoryReader.tsx): the reading-mode   *)
(* state machine (scene / panel / revealed set / history / choice list /   *)
(* story-ended) and the scoped audio playback of the StoryReader component,*)
(* and the preview player of the AudioManager component                    *)
(* (src/components/AudioManager.tsx).                                      *)
(*                                                                         *)
(* One action is one browser event handled to completion: the handler, the *)
(* React re-render it causes and the effects that run after that render.   *)
(* Timers (setTimeout, requestAnimationFrame) are actions of their own.    *)
(***************************************************************************)
EXTENDS Integers, Sequences, FiniteSets, TLC

(* ------------------------------ bounds --------------------------------- *)
MaxPanels == 2
MaxChoices == 2
MaxHistory == 2
MaxElements == 1

(* ----------------------------- constants ------------------------------- *)
\* volumes are fixed-point numbers, 1.0 = VolumeUnit; a product or a quotient
\* is rounded down to the grid
VolumeUnit == 100
\* const steps = 20 (fadeAudio)
FadeSteps == 20

(* ------------------------------ inputs --------------------------------- *)
\* scene ids are opaque strings (uuid) in the source
SceneList == <<"s1", "s2">>
SceneIds == {SceneList[i] : i \in 1..Len(SceneList)}
NoScene == ""
\* a panel is identified by its scene and its position in the sorted panel
\* list; NoPanel stands for null / undefined
NoPanel == <<>>

VARIABLES
  story,               \* props.story.scenes : sequence of scene rows
  choices,             \* props.choices      : sequence of choice rows (order_index order)
  currentSceneId,
  currentPanelIndex,
  showChoices,
  storyEnded,
  readingMode,
  revealedPanels,
  history,
  isSceneTransitioning,
  showLanguageMenu,
  sceneTimers,         \* pending setTimeout(..., 150) callbacks of changeSceneSmoothly
  frameCallbacks,      \* pending requestAnimationFrame callbacks of changeSceneSmoothly
  audios,              \* props.audios      : sequence of story_audio rows
  isMuted,
  masterVolume,        \* in 1/VolumeUnit
  elements,            \* the HTMLAudioElements of the reader, by slot
  activeAudios,        \* activeAudiosRef: the entries of the Map
  startTimers,         \* pending setTimeout(..., startDelay) callbacks of startAudio
  fades,               \* fadeAudio loops waiting for their next setTimeout(fade, ...)
  mounted,             \* the component on the page: "reader" or "manager"
  localAudios,         \* AudioManager: the audios state
  audioElements,       \* AudioManager: audioElementsRef, by position in localAudios
  playingAudioId,      \* AudioManager: position of the playing audio, 0 for null
  playPromises,        \* AudioManager: el.play() promises not settled yet
  texts,               \* TextEditor: the texts state
  selectedTextId,      \* TextEditor: position of the selected text, 0 for null
  activeLanguage,      \* TextEditor
  linkedMode,          \* TextEditor
  hasChanges,          \* TextEditor
  clearedOverride,     \* TextEditor: the style_override the last clearOverrides removed
  flowScenes,          \* StoryFlowEditor: the scenes state
  flowChoices,         \* StoryFlowEditor: the choices state (one edge per choice)
  positions,           \* StoryFlowEditor: the positions state
  nodes,               \* StoryFlowEditor: the nodes state of React Flow
  positionSaveTimer,   \* StoryFlowEditor: positionSaveTimerRef and its pending callback
  selectedStory,       \* PanelDashboard: the scenes of selectedStory
  sceneForm,           \* PanelDashboard
  loading,             \* PanelDashboard
  localPanels,         \* SceneEditor: the panels of the scene in list order
  readingDirection,    \* SceneEditor: "ltr" or "rtl"
  panelHistory,        \* SceneEditor: the history state, one panel list per entry
  historyIndex,        \* SceneEditor: -1 while the history is empty
  lastEdit,            \* SceneEditor: the panel list before and after the last edit
  previewScene,        \* panel preview: the scene on show, its image size and its panels
  previewPanelIndex,   \* panel preview: currentPanelIndex
  clipPath,            \* panel preview: the clip-path style of the last render
  saving,              \* SceneEditor, TextEditor: a save is running
  pending,             \* async handlers waiting for a response of the backend
  db,                  \* the rows of the backend
  lastOp               \* the event handled by the last step

vars == <<story, choices, currentSceneId, currentPanelIndex, showChoices,
          storyEnded, readingMode, revealedPanels, history,
          isSceneTransitioning, showLanguageMenu, sceneTimers, frameCallbacks,
          audios, isMuted, masterVolume, elements, activeAudios, startTimers,
          fades, mounted, localAudios, audioElements, playingAudioId,
          playPromises, texts, selectedTextId, activeLanguage, linkedMode,
          hasChanges, clearedOverride, flowScenes, flowChoices, positions, nodes,
          positionSaveTimer, selectedStory, sceneForm, loading, localPanels,
          readingDirection, panelHistory, historyIndex, lastEdit,
          previewScene, previewPanelIndex, clipPath,
          saving,
          pending, db, lastOp>>

propVars == <<story, choices, audios>>

readerVars == <<currentSceneId, currentPanelIndex, showChoices, storyEnded,
                readingMode, revealedPanels, history, isSceneTransitioning,
                showLanguageMenu, sceneTimers, frameCallbacks, isMuted,
                masterVolume, elements, activeAudios, startTimers, fades>>

managerVars == <<localAudios, audioElements, playingAudioId, playPromises>>

textVars == <<texts, selectedTextId, activeLanguage, linkedMode, hasChanges,
              clearedOverride>>

flowVars == <<flowScenes, flowChoices, positions, nodes, positionSaveTimer>>

dashboardVars == <<selectedStory, sceneForm, loading>>

sceneEditorVars ==
  <<localPanels, readingDirection, panelHistory, historyIndex, lastEdit>>

previewVars == <<previewScene, previewPanelIndex, clipPath>>

panelSaveVars == <<saving>>

backendVars == <<pending, db>>

\* the state of the editors of the admin panel
editorVars == <<textVars, flowVars, dashboardVars, sceneEditorVars, previewVars,
               panelSaveVars,
               backendVars>>

(* --------------------------- pure helpers ------------------------------ *)
\* Array.prototype.find over the positions that satisfy the predicate: the
\* first of them, 0 if there is none
FindFirst(hits) ==
  IF hits = {} THEN 0
  ELSE CHOOSE i \in hits : \A j \in hits : i <= j

SceneRows == [id : SceneIds, is_start_scene : BOOLEAN, panels : 0..MaxPanels]
ChoiceRows == [from_scene_id : SceneIds, to_scene_id : SceneIds, labeled : BOOLEAN]

\* const startScene = story.scenes?.find(s => s.is_start_scene) || story.scenes?.[0]
\* ... startScene?.id || ''
StartSceneId(scenes) ==
  LET i == FindFirst({j \in 1..Len(scenes) : scenes[j].is_start_scene})
  IN  IF i # 0 THEN scenes[i].id
      ELSE IF Len(scenes) > 0 THEN scenes[1].id
      ELSE NoScene

\* sortedPanels.length of story.scenes.find(s => s.id === sceneId)
PanelCount(scenes, sceneId) ==
  LET i == FindFirst({j \in 1..Len(scenes) : scenes[j].id = sceneId})
  IN  IF i = 0 THEN 0 ELSE scenes[i].panels

\* choices.filter(c => c.from_scene_id === currentSceneId && c.choice_text.trim() !== '')
SceneChoices(chs, sceneId) ==
  {i \in 1..Len(chs) : chs[i].from_scene_id = sceneId /\ chs[i].labeled}

\* variant: takes the last unlabeled row of the scene instead of the first
NormalFlowLast(chs, sceneId) ==
  LET flows == {i \in 1..Len(chs) :
                  chs[i].from_scene_id = sceneId /\ ~chs[i].labeled}
  IN  IF flows = {} THEN 0
      ELSE CHOOSE i \in flows : \A j \in flows : j <= i

\* choices.find(c => c.from_scene_id === currentSceneId && !c.choice_text.trim())
NormalFlowConnection(chs, sceneId) ==
  FindFirst({i \in 1..Len(chs) :
               chs[i].from_scene_id = sceneId /\ ~chs[i].labeled})

IsEndingScene(chs, sceneId) ==
  ~ \E i \in 1..Len(chs) : chs[i].from_scene_id = sceneId

\* variant: compares with sortedPanels.length instead of length - 1
IsAtLastPanelOffByOne(scenes, sceneId, panelIndex) ==
  panelIndex = PanelCount(scenes, sceneId)

IsAtLastPanel(scenes, sceneId, panelIndex) ==
  panelIndex = PanelCount(scenes, sceneId) - 1

\* variant: a decision point needs more than one labeled choice
IsAtDecisionPointMultiple(scenes, chs, sceneId, panelIndex) ==
  /\ IsAtLastPanel(scenes, sceneId, panelIndex)
  /\ Cardinality(SceneChoices(chs, sceneId)) > 1

IsAtDecisionPoint(scenes, chs, sceneId, panelIndex) ==
  IsAtLastPanel(scenes, sceneId, panelIndex) /\ SceneChoices(chs, sceneId) # {}

(* ------------------------------ effects -------------------------------- *)
\* variant: the effect has no dependency list and runs after every render
ResetRevealedAlways(oldScene, newScene, rev) == {0}

\* useEffect(() => setRevealedPanels(new Set([0])), [currentSceneId])
ResetRevealedEffect(oldScene, newScene, rev) ==
  IF newScene # oldScene THEN {0} ELSE rev

\* useEffect(() => { if (readingMode === 'panel-to-panel') add 0..currentPanelIndex },
\*           [readingMode, currentPanelIndex])
SyncRevealedEffect(oldMode, newMode, oldIdx, newIdx, rev) ==
  IF (oldMode # newMode \/ oldIdx # newIdx) /\ newMode = "panel-to-panel"
  THEN rev \cup (0..newIdx)
  ELSE rev

\* the effects that run after a render, in declaration order
RunEffects(oldScene, newScene, oldMode, newMode, oldIdx, newIdx, rev) ==
  SyncRevealedEffect(oldMode, newMode, oldIdx, newIdx,
                     ResetRevealedEffect(oldScene, newScene, rev))

(* ------------------------------- audio --------------------------------- *)
\* the ref-held audio state as one record
Audio ==
  [elements |-> elements, activeAudios |-> activeAudios,
   startTimers |-> startTimers, fades |-> fades, overflow |-> FALSE]

\* an element slot that holds no HTMLAudioElement
NoElement == [audio |-> 0, volume |-> 0, playing |-> FALSE, hasSrc |-> FALSE]

\* overflow: a new Audio() was needed while every slot held a live element
NoAudio ==
  [elements |-> [e \in 1..MaxElements |-> NoElement], activeAudios |-> {},
   startTimers |-> {}, fades |-> {}, overflow |-> FALSE]

\* Math.max(0, Math.min(1, v))
Clamp01(v) ==
  IF v < 0 THEN 0 ELSE IF v > VolumeUnit THEN VolumeUnit ELSE v

\* variant: the stored volume (up to 200%) is applied without the clamp
CalculateVolumeUnclamped(audioVolume, muted, master) ==
  IF muted THEN 0 ELSE (audioVolume * master) \div VolumeUnit

\* calculateVolume(audioVolume, muted, master)
CalculateVolume(audioVolume, muted, master) ==
  IF muted THEN 0
  ELSE Clamp01((audioVolume * master) \div VolumeUnit)

\* currentPanel = sortedPanels[currentPanelIndex]
CurrentPanel(sceneId, panelIndex) ==
  IF panelIndex < PanelCount(story, sceneId)
  THEN <<sceneId, panelIndex>>
  ELSE NoPanel

\* the Map entry of an audio id (at most one), as a set
EntriesOf(a, id) == {x \in a.activeAudios : x.id = id}

\* element.pause(); element.src = ''; activeAudiosRef.current.delete(audioId)
CompleteStop(a, e, id) ==
  [a EXCEPT !.elements[e].playing = FALSE,
            !.elements[e].hasSrc = FALSE,
            !.activeAudios = @ \ EntriesOf(a, id)]

\* element.volume = clamp(currentVolume + volumeStep * currentStep)
FadeValue(currentVolume, volumeDiff, currentStep) ==
  Clamp01((currentVolume * FadeSteps + volumeDiff * currentStep) \div FadeSteps)

\* fadeAudio(element, targetVolume, duration, onComplete): up to the first
\* setTimeout(fade, stepDuration); onComplete is "stop" for the callback
\* stopAudio passes and "none" when there is none
FadeAudio(a, e, targetVolume, duration, onComplete, id) ==
  LET clampedTarget == Clamp01(targetVolume)
      currentVolume == a.elements[e].volume
      volumeDiff == clampedTarget - currentVolume
  IN  IF duration <= 0
      THEN LET set == [a EXCEPT !.elements[e].volume = clampedTarget]
           IN  IF onComplete = "stop" THEN CompleteStop(set, e, id) ELSE set
      ELSE [a EXCEPT !.elements[e].volume = FadeValue(currentVolume, volumeDiff, 1),
                     !.fades = @ \cup {[element |-> e,
                                        currentVolume |-> currentVolume,
                                        volumeDiff |-> volumeDiff,
                                        currentStep |-> 1,
                                        onComplete |-> onComplete,
                                        id |-> id]}]

\* one later run of fade() from its timer
FadeTick(a, f) ==
  LET step == f.currentStep + 1
      set == [a EXCEPT !.elements[f.element].volume =
                         FadeValue(f.currentVolume, f.volumeDiff, step),
                       !.fades = @ \ {f}]
  IN  IF step < FadeSteps
      THEN [set EXCEPT !.fades = @ \cup {[f EXCEPT !.currentStep = step]}]
      ELSE IF f.onComplete = "stop" THEN CompleteStop(set, f.element, f.id)
      ELSE set

\* the slots new Audio() can take: empty ones, and those whose element is
\* silent and out of the reach of the Map, of every timer and of every fade
Unreachable(a) ==
  {e \in DOMAIN a.elements :
     /\ ~a.elements[e].playing
     /\ \A x \in a.activeAudios : x.element # e
     /\ \A t \in a.startTimers : t.element # e
     /\ \A f \in a.fades : f.element # e}

\* startAudio(audioData), audioData = audios[k]; muted and master are the
\* isMuted / masterVolume the callback closed over (the timer callback reads
\* them only when it fades in, so only then does the timer record keep them)
StartAudio(a, k, muted, master) ==
  IF EntriesOf(a, audios[k].id) # {} THEN a
  ELSE IF Unreachable(a) = {} THEN [a EXCEPT !.overflow = TRUE]
  ELSE LET e == CHOOSE x \in Unreachable(a) : \A y \in Unreachable(a) : x <= y
           fadesIn == audios[k].fade_in_ms > 0
       IN  [a EXCEPT
              !.elements[e] = [audio |-> k,
                               volume |-> CalculateVolume(audios[k].volume,
                                                          muted, master),
                               playing |-> FALSE,
                               hasSrc |-> TRUE],
              !.activeAudios = @ \cup {[id |-> audios[k].id, audio |-> k,
                                        element |-> e, isFadingOut |-> FALSE]},
              !.startTimers = @ \cup {[element |-> e,
                                       muted |-> fadesIn /\ muted,
                                       master |-> IF fadesIn THEN master ELSE 0]}]

\* the setTimeout callback of startAudio; `allowed` tells whether the browser
\* lets play() start the playback (an element without source never plays)
StartTimerFire(a, t, allowed) ==
  LET e == t.element
      audioData == audios[a.elements[e].audio]
      played == [a EXCEPT !.elements[e].playing = (a.elements[e].hasSrc /\ allowed),
                          !.startTimers = @ \ {t}]
  IN  IF audioData.fade_in_ms > 0
      THEN FadeAudio([played EXCEPT !.elements[e].volume = 0], e,
                     CalculateVolume(audioData.volume, t.muted, t.master),
                     audioData.fade_in_ms, "none", audioData.id)
      ELSE played

\* stopAudio(audioId, fadeOut)
StopAudio(a, id, fadeOut) ==
  IF EntriesOf(a, id) = {} THEN a
  ELSE LET x == CHOOSE y \in EntriesOf(a, id) : TRUE
           fadeOutMs == audios[x.audio].fade_out_ms
       IN  IF x.isFadingOut THEN a
           ELSE IF fadeOut /\ fadeOutMs > 0
           THEN FadeAudio(
                  [a EXCEPT !.activeAudios =
                              (@ \ {x}) \cup {[x EXCEPT !.isFadingOut = TRUE]}],
                  x.element, 0, fadeOutMs, "stop", id)
           ELSE CompleteStop(a, x.element, id)

\* the 'ended' listener of a non-looping element
EndedListener(a, e) ==
  [a EXCEPT !.elements[e].playing = FALSE,
            !.activeAudios = @ \ EntriesOf(a, audios[a.elements[e].audio].id)]

\* effect [isMuted, masterVolume]: re-apply the volume to every active audio
\* that is not fading out
VolumeEffect(a, muted, master) ==
  [a EXCEPT !.elements =
     [e \in DOMAIN a.elements |->
        IF \E x \in a.activeAudios : x.element = e /\ ~x.isFadingOut
        THEN [a.elements[e] EXCEPT
                !.volume = CalculateVolume(audios[a.elements[e].audio].volume,
                                           muted, master)]
        ELSE a.elements[e]]]

IsStoryAudio(row) == row.scene_id = NoScene /\ row.panel_id = NoPanel

\* variant: only the scene scope is looked at, a panel audio is never stopped
\* by a panel change
OutOfScopeSceneOnly(row, sceneId, panel) ==
  IF IsStoryAudio(row) /\ row.loop THEN FALSE
  ELSE row.scene_id # NoScene /\ row.scene_id # sceneId

\* must the manage effect stop this active audio?
OutOfScope(row, sceneId, panel) ==
  IF IsStoryAudio(row) /\ row.loop THEN FALSE
  ELSE IF row.scene_id # NoScene /\ row.scene_id # sceneId THEN TRUE
  ELSE row.panel_id # NoPanel /\ (panel = NoPanel \/ row.panel_id # panel)

RECURSIVE StopAll(_, _, _, _)
\* activeAudiosRef.current.forEach(...): stop every entry that is out of scope
StopAll(a, ids, sceneId, panel) ==
  IF ids = {} THEN a
  ELSE LET id == CHOOSE i \in ids : TRUE
           x == CHOOSE y \in EntriesOf(a, id) : TRUE
       IN  StopAll(IF OutOfScope(audios[x.audio], sceneId, panel)
                   THEN StopAudio(a, id, TRUE) ELSE a,
                   ids \ {id}, sceneId, panel)

\* indices of the rows that should be playing: story, scene and panel audios
ShouldBePlaying(sceneId, panel) ==
  LET IsStory(k) == IsStoryAudio(audios[k]) /\ audios[k].autoplay
      IsScene(k) == /\ audios[k].scene_id = sceneId
                    /\ audios[k].panel_id = NoPanel
                    /\ audios[k].autoplay
      IsPanel(k) == /\ panel # NoPanel
                    /\ audios[k].panel_id = panel
                    /\ audios[k].autoplay
      all == [k \in 1..Len(audios) |-> k]
  IN  SelectSeq(all, IsStory) \o SelectSeq(all, IsScene) \o SelectSeq(all, IsPanel)

RECURSIVE StartAll(_, _, _, _)
\* shouldBePlaying.forEach(...): start every row that has no Map entry
StartAll(a, ks, muted, master) ==
  IF ks = <<>> THEN a
  ELSE StartAll(StartAudio(a, Head(ks), muted, master), Tail(ks), muted, master)

\* effect [audios, currentSceneId, currentPanel, startAudio, stopAudio]
ManageEffect(a, sceneId, panel, muted, master) ==
  IF Len(audios) = 0 THEN a
  ELSE StartAll(StopAll(a, {x.id : x \in a.activeAudios}, sceneId, panel),
                ShouldBePlaying(sceneId, panel), muted, master)

(* ------------------------------ initial state -------------------------- *)
\* the scene list of the story: which scenes carry is_start_scene (none, so
\* that scenes[0] is the start scene, or the second one) and how many panels
\* each scene has are inputs
StartFlags == {{}, {SceneList[2]}}

Stories ==
  {[i \in 1..Len(SceneList) |->
      [id |-> SceneList[i], is_start_scene |-> (SceneList[i] \in st),
       panels |-> pc[SceneList[i]]]] :
     st \in StartFlags, pc \in [SceneIds -> 0..MaxPanels]}

RECURSIVE SeqsUpTo(_, _)
SeqsUpTo(S, n) ==
  IF n = 0 THEN {<<>>}
  ELSE LET shorter == SeqsUpTo(S, n - 1)
       IN  shorter \cup {Append(q, x) : q \in {r \in shorter : Len(r) = n - 1}, x \in S}

\* the flow editor never stores two rows for the same (from, to) pair
DistinctPairs(chs) ==
  \A i, j \in 1..Len(chs) :
    (i # j) => (chs[i].from_scene_id # chs[j].from_scene_id
                \/ chs[i].to_scene_id # chs[j].to_scene_id)

ScenePos(id) == CHOOSE i \in 1..Len(SceneList) : SceneList[i] = id

\* the reader only ever looks at the rows of one source scene (filter/find on
\* from_scene_id), so only the order among the rows of one scene matters: the
\* lists are drawn grouped by source scene
GroupedByScene(chs) ==
  \A i, j \in 1..Len(chs) :
    (i < j) => ScenePos(chs[i].from_scene_id) <= ScenePos(chs[j].from_scene_id)

\* choice rows in order_index order
ChoiceLists ==
  {chs \in SeqsUpTo(ChoiceRows, MaxChoices) : DistinctPairs(chs) /\ GroupedByScene(chs)}

ReaderInit ==
  /\ currentSceneId = StartSceneId(story)
  /\ currentPanelIndex = 0
  /\ showChoices = FALSE
  /\ storyEnded = FALSE
  /\ readingMode = "focus"
  /\ revealedPanels = {0}
  /\ history = <<>>
  /\ isSceneTransitioning = FALSE
  /\ showLanguageMenu = FALSE
  /\ sceneTimers = <<>>
  /\ frameCallbacks = 0
  /\ isMuted = FALSE
  /\ masterVolume = VolumeUnit
  /\ \E a \in {ManageEffect(NoAudio, StartSceneId(story),
                            CurrentPanel(StartSceneId(story), 0),
                            FALSE, VolumeUnit)} :
       /\ elements = a.elements
       /\ activeAudios = a.activeAudios
       /\ startTimers = a.startTimers
       /\ fades = a.fades
  /\ lastOp = "mount"

\* no TextEditor is on the page
NoTextEditor ==
  /\ texts = <<>>
  /\ selectedTextId = 0
  /\ activeLanguage = "tr"
  /\ linkedMode = TRUE
  /\ hasChanges = FALSE
  /\ clearedOverride = 0

\* no StoryFlowEditor is on the page
NoFlowEditor ==
  /\ flowScenes = <<>>
  /\ flowChoices = <<>>
  /\ positions = <<>>
  /\ nodes = <<>>
  /\ positionSaveTimer = <<>>

\* no PanelDashboard is on the page
NoDashboard ==
  /\ selectedStory = <<>>
  /\ sceneForm = [is_start_scene |-> FALSE]
  /\ loading = FALSE

\* no panel edit has been made
NoEdit == [before |-> <<>>, after |-> <<>>, stage |-> "none"]

\* no SceneEditor is on the page
NoSceneEditor ==
  /\ localPanels = <<>>
  /\ readingDirection = "ltr"
  /\ panelHistory = <<>>
  /\ historyIndex = -1
  /\ lastEdit = NoEdit

\* no panel preview is on the page
NoPreview ==
  /\ previewScene = [image_width |-> 0, image_height |-> 0, panels |-> <<>>]
  /\ previewPanelIndex = 0
  /\ clipPath = [reader |-> "", manager |-> ""]

\* no save of the panels runs
NoPanelSave ==
  /\ saving = FALSE

\* no request to the backend
NoBackend ==
  /\ pending = {}
  /\ db = <<>>

\* no editor of the admin panel is on the page
NoEditors ==
  /\ NoTextEditor /\ NoFlowEditor /\ NoDashboard /\ NoSceneEditor
  /\ NoPreview /\ NoPanelSave /\ NoBackend

\* the reader is on the page, no AudioManager is
ReaderMounted ==
  /\ mounted = "reader"
  /\ NoEditors
  /\ localAudios = <<>>
  /\ audioElements = <<>>
  /\ playingAudioId = 0
  /\ playPromises = {}

\* neither the reader nor the AudioManager is on the page
NoReader ==
  /\ story = <<>>
  /\ choices = <<>>
  /\ audios = <<>>
  /\ ReaderInit
  /\ localAudios = <<>>
  /\ audioElements = <<>>
  /\ playingAudioId = 0
  /\ playPromises = {}

\* the reader of a story without audio rows
Init ==
  /\ story \in Stories
  /\ choices \in ChoiceLists
  /\ audios = <<>>
  /\ ReaderInit
  /\ ReaderMounted

\* a two-scene story that loops: s1 (two panels) flows into s2 (one panel),
\* s2 flows back into s1
LoopStory ==
  <<[id |-> SceneList[1], is_start_scene |-> TRUE, panels |-> 2],
    [id |-> SceneList[2], is_start_scene |-> FALSE, panels |-> 1]>>

LoopChoices ==
  <<[from_scene_id |-> SceneList[1], to_scene_id |-> SceneList[2], labeled |-> FALSE],
    [from_scene_id |-> SceneList[2], to_scene_id |-> SceneList[1], labeled |-> FALSE]>>

\* the scopes tried: the story, either scene, the first panel of s1 (a panel
\* audio carries the id of its scene as well)
AudioScopes ==
  {[scene_id |-> NoScene, panel_id |-> NoPanel],
   [scene_id |-> SceneList[1], panel_id |-> NoPanel],
   [scene_id |-> SceneList[2], panel_id |-> NoPanel],
   [scene_id |-> SceneList[1], panel_id |-> <<SceneList[1], 0>>]}

\* the stored volumes tried: 50% and 150%
AudioVolumes == {VolumeUnit \div 2, VolumeUnit + VolumeUnit \div 2}

\* a story_audio row that plays automatically; the start delay only postpones
\* the timer
AudioRow(sc, lp, v, fi, fo) ==
  [id |-> "a1", scene_id |-> sc.scene_id, panel_id |-> sc.panel_id,
   autoplay |-> TRUE, loop |-> lp, volume |-> v,
   fade_in_ms |-> fi, fade_out_ms |-> fo, start_delay_ms |-> 500]

\* the rows tried: every scope, looping or not, at both volumes without
\* fades; every scope at 150% with a fade-in (not looping) or with a fade-out
\* (looping or not)
AudioRows ==
  {AudioRow(sc, lp, v, 0, 0) :
     sc \in AudioScopes, lp \in BOOLEAN, v \in AudioVolumes}
  \cup {AudioRow(sc, FALSE, VolumeUnit + VolumeUnit \div 2, 1000, 0) :
          sc \in AudioScopes}
  \cup {AudioRow(sc, lp, VolumeUnit + VolumeUnit \div 2, 0, 1000) :
          sc \in AudioScopes, lp \in BOOLEAN}

\* the reader of the looping story with one audio row
InitReaderAudio ==
  /\ story = LoopStory
  /\ choices = LoopChoices
  /\ audios \in {<<row>> : row \in AudioRows}
  /\ ReaderInit
  /\ ReaderMounted

\* the volumes the manager's slider stores: 50%, 150%, 200%
ManagerVolumes == {VolumeUnit \div 2, VolumeUnit + VolumeUnit \div 2, 2 * VolumeUnit}

LocalAudioRows == [volume : ManagerVolumes, loop : BOOLEAN]

\* audioElementsRef has no element for this audio
NoManagerElement ==
  [exists |-> FALSE, volume |-> 0, loop |-> FALSE, playing |-> FALSE,
   audioLoop |-> FALSE]

\* the AudioManager with two loaded audios, nothing playing; no reader
InitManager ==
  /\ mounted = "manager"
  /\ localAudios \in {<<r1, r2>> : r1 \in LocalAudioRows, r2 \in LocalAudioRows}
  /\ audioElements = [k \in 1..2 |-> NoManagerElement]
  /\ playingAudioId = 0
  /\ playPromises = {}
  /\ story = <<>>
  /\ choices = <<>>
  /\ audios = <<>>
  /\ ReaderInit
  /\ NoEditors

InitAudio == InitReaderAudio \/ InitManager

(* ------------------------------ operations ----------------------------- *)
\* the reader's React state as one record
Cur ==
  [currentSceneId |-> currentSceneId, currentPanelIndex |-> currentPanelIndex,
   showChoices |-> showChoices, storyEnded |-> storyEnded,
   readingMode |-> readingMode, revealedPanels |-> revealedPanels,
   history |-> history, isSceneTransitioning |-> isSceneTransitioning,
   showLanguageMenu |-> showLanguageMenu, sceneTimers |-> sceneTimers,
   frameCallbacks |-> frameCallbacks, isMuted |-> isMuted,
   masterVolume |-> masterVolume]

\* the main view (scene image, click/touch surface, buttons, overlays) is
\* rendered only if (currentScene && currentPanel)
Rendered(s) ==
  s.currentPanelIndex < PanelCount(story, s.currentSceneId)

\* changeSceneSmoothly(newSceneId, newPanelIndex, newRevealedPanels?): the
\* synchronous part; the state change itself runs from the 150 ms timer
ChangeSceneSmoothly(s, newSceneId, newPanelIndex, newRevealedPanels, by) ==
  [s EXCEPT !.isSceneTransitioning = TRUE,
            !.sceneTimers = Append(@, [sceneId |-> newSceneId,
                                       panelIndex |-> newPanelIndex,
                                       revealedPanels |-> newRevealedPanels,
                                       by |-> by])]

PushHistory(s) ==
  Append(s.history, [sceneId |-> s.currentSceneId,
                     panelIndex |-> s.currentPanelIndex,
                     revealedPanels |-> s.revealedPanels])

\* goNext()
GoNext(s) ==
  IF s.showChoices \/ s.storyEnded \/ s.isSceneTransitioning THEN s
  ELSE IF IsAtDecisionPoint(story, choices, s.currentSceneId, s.currentPanelIndex)
  THEN [s EXCEPT !.showChoices = TRUE]
  ELSE IF s.currentPanelIndex < PanelCount(story, s.currentSceneId) - 1
  THEN [s EXCEPT !.currentPanelIndex = @ + 1,
                 !.revealedPanels = @ \cup {s.currentPanelIndex + 1}]
  ELSE IF IsAtLastPanel(story, s.currentSceneId, s.currentPanelIndex)
  THEN IF IsEndingScene(choices, s.currentSceneId)
       THEN [s EXCEPT !.storyEnded = TRUE]
       ELSE IF NormalFlowConnection(choices, s.currentSceneId) # 0
       THEN ChangeSceneSmoothly(
              [s EXCEPT !.history = PushHistory(s)],
              choices[NormalFlowConnection(choices, s.currentSceneId)].to_scene_id,
              0, {0}, "goNext")
       ELSE s
  ELSE s

\* variant: the choice handler does not record the history entry
HandleChoiceNoPush(s, c) ==
  ChangeSceneSmoothly(
    [s EXCEPT !.showChoices = FALSE, !.storyEnded = FALSE],
    c.to_scene_id, 0, {0}, "choice")

\* handleChoice(choice)
HandleChoiceOp(s, c) ==
  ChangeSceneSmoothly(
    [s EXCEPT !.history = PushHistory(s), !.showChoices = FALSE,
              !.storyEnded = FALSE],
    c.to_scene_id, 0, {0}, "choice")

\* variant: restart forgets setHistory([])
RestartKeepHistory(s) ==
  ChangeSceneSmoothly(
    [s EXCEPT !.storyEnded = FALSE],
    StartSceneId(story), 0, {0}, "restart")

\* the "read again" button of the story-ended overlay
RestartOp(s) ==
  ChangeSceneSmoothly(
    [s EXCEPT !.storyEnded = FALSE, !.history = <<>>],
    StartSceneId(story), 0, {0}, "restart")

\* variant: the timer callback forgets setCurrentPanelIndex(newPanelIndex)
SceneTimerKeepIndex(s) ==
  LET t == Head(s.sceneTimers)
  IN  [s EXCEPT !.currentSceneId = t.sceneId,
                !.revealedPanels = t.revealedPanels,
                !.sceneTimers = Tail(@),
                !.frameCallbacks = @ + 1]

\* the setTimeout callback of changeSceneSmoothly
SceneTimerOp(s) ==
  LET t == Head(s.sceneTimers)
  IN  [s EXCEPT !.currentSceneId = t.sceneId,
                !.currentPanelIndex = t.panelIndex,
                !.revealedPanels = t.revealedPanels,
                !.sceneTimers = Tail(@),
                !.frameCallbacks = @ + 1]

\* variant: a mode switch also rewinds the scene to its first panel
SetReadingModeResetIndex(s, mode) ==
  [s EXCEPT !.readingMode = mode, !.currentPanelIndex = 0]

\* setReadingMode(mode)
SetReadingMode(s, mode) == [s EXCEPT !.readingMode = mode]

\* keydown 'm': setReadingMode(prev => prev === 'focus' ? 'panel-to-panel' : 'focus')
ToggleReadingMode(s) ==
  SetReadingMode(s, IF s.readingMode = "focus" THEN "panel-to-panel" ELSE "focus")

\* keydown Escape
EscapeOp(s) ==
  IF s.showLanguageMenu THEN [s EXCEPT !.showLanguageMenu = FALSE]
  ELSE IF s.showChoices THEN [s EXCEPT !.showChoices = FALSE]
  ELSE IF s.storyEnded THEN [s EXCEPT !.storyEnded = FALSE]
  ELSE s

\* variant: ArrowLeft still bound to goPrev() of the earlier reader revision
GoPrev(s) ==
  IF s.showChoices THEN [s EXCEPT !.showChoices = FALSE]
  ELSE IF s.storyEnded THEN [s EXCEPT !.storyEnded = FALSE]
  ELSE IF s.currentPanelIndex > 0
  THEN [s EXCEPT !.currentPanelIndex = @ - 1]
  ELSE IF Len(s.history) > 0
  THEN LET lastEntry == s.history[Len(s.history)]
       IN  [s EXCEPT !.history = SubSeq(@, 1, Len(@) - 1),
                     !.currentSceneId = lastEntry.sceneId,
                     !.currentPanelIndex = lastEntry.panelIndex,
                     !.revealedPanels = lastEntry.revealedPanels]
  ELSE s

\* keydown ArrowLeft: back navigation is disabled, the key has no handler
ArrowLeftOp(s) == s

\* the render after a state change and the effects that follow it
Render(old, new) ==
  [new EXCEPT !.revealedPanels =
     RunEffects(old.currentSceneId, new.currentSceneId,
                old.readingMode, new.readingMode,
                old.currentPanelIndex, new.currentPanelIndex,
                new.revealedPanels)]

\* the audio effects that follow a render: the volume effect when isMuted or
\* masterVolume changed, then the manage effect when the scene, the current
\* panel or (through startAudio's identity) isMuted or masterVolume changed
AudioEffects(old, new, a) ==
  LET volumeChanged == \/ old.isMuted # new.isMuted
                       \/ old.masterVolume # new.masterVolume
      panel == CurrentPanel(new.currentSceneId, new.currentPanelIndex)
      scopeChanged == \/ old.currentSceneId # new.currentSceneId
                      \/ CurrentPanel(old.currentSceneId, old.currentPanelIndex) # panel
      a1 == IF volumeChanged
            THEN VolumeEffect(a, new.isMuted, new.masterVolume) ELSE a
  IN  IF volumeChanged \/ scopeChanged
      THEN ManageEffect(a1, new.currentSceneId, panel, new.isMuted, new.masterVolume)
      ELSE a1

\* one handled event: the handler's state updates (new) and ref updates (a),
\* the render, the effects
Commit(op, new, a) ==
  \E r \in {Render(Cur, new)} :
    \E b \in {AudioEffects(Cur, r, a)} :
      /\ mounted = "reader"
      /\ Len(r.history) <= MaxHistory
      /\ ~b.overflow
      /\ currentSceneId' = r.currentSceneId
      /\ currentPanelIndex' = r.currentPanelIndex
      /\ showChoices' = r.showChoices
      /\ storyEnded' = r.storyEnded
      /\ readingMode' = r.readingMode
      /\ revealedPanels' = r.revealedPanels
      /\ history' = r.history
      /\ isSceneTransitioning' = r.isSceneTransitioning
      /\ showLanguageMenu' = r.showLanguageMenu
      /\ sceneTimers' = r.sceneTimers
      /\ frameCallbacks' = r.frameCallbacks
      /\ isMuted' = r.isMuted
      /\ masterVolume' = r.masterVolume
      /\ elements' = b.elements
      /\ activeAudios' = b.activeAudios
      /\ startTimers' = b.startTimers
      /\ fades' = b.fades
      /\ lastOp' = op
      /\ UNCHANGED <<propVars, mounted, managerVars, editorVars>>

(* ------------------------------- actions ------------------------------- *)
\* keydown ArrowRight / Space: if (!showChoices && !storyEnded) goNext()
KeyArrowRight ==
  Commit("goNext", IF ~showChoices /\ ~storyEnded THEN GoNext(Cur) ELSE Cur, Audio)

\* handleViewClick: zone "next" is the right 30% (and the middle on desktop),
\* zone "controls" only toggles the control bar
ViewClick ==
  /\ Rendered(Cur)
  /\ \E zone \in {"next", "controls"} :
       IF showChoices \/ storyEnded THEN Commit("other", Cur, Audio)
       ELSE IF showLanguageMenu
       THEN Commit("other", [Cur EXCEPT !.showLanguageMenu = FALSE], Audio)
       ELSE IF zone = "next" THEN Commit("goNext", GoNext(Cur), Audio)
       ELSE Commit("other", Cur, Audio)

\* handleTouchEnd: a swipe left or a tap on the right edge goes next, any
\* other tap toggles the control bar, any other gesture does nothing
TouchEnd ==
  /\ Rendered(Cur)
  /\ \E gesture \in {"next", "controls"} :
       IF showChoices \/ storyEnded THEN Commit("other", Cur, Audio)
       ELSE IF gesture = "next" THEN Commit("goNext", GoNext(Cur), Audio)
       ELSE Commit("other", Cur, Audio)

KeyArrowLeft == Commit("other", ArrowLeftOp(Cur), Audio)

KeyEscape == Commit("other", EscapeOp(Cur), Audio)

KeyM == Commit("mode", ToggleReadingMode(Cur), Audio)

ModeButton ==
  /\ Rendered(Cur)
  /\ \E mode \in {"focus", "panel-to-panel"} :
       Commit("mode", SetReadingMode(Cur, mode), Audio)

\* keydown 'l': setShowLanguageMenu(prev => !prev)
KeyL == Commit("other", [Cur EXCEPT !.showLanguageMenu = ~@], Audio)

\* a button of the choice list (rendered when showChoices && sceneChoices.length > 0)
HandleChoice ==
  /\ Rendered(Cur)
  /\ showChoices
  /\ \E i \in SceneChoices(choices, currentSceneId) :
       Commit("choice", HandleChoiceOp(Cur, choices[i]), Audio)

\* the restart button (rendered when storyEnded)
Restart ==
  /\ Rendered(Cur)
  /\ storyEnded
  /\ Commit("restart", RestartOp(Cur), Audio)

\* 150 ms after changeSceneSmoothly
SceneChangeTimeout ==
  /\ sceneTimers # <<>>
  /\ Commit("sceneChange", SceneTimerOp(Cur), Audio)

\* requestAnimationFrame(() => setIsSceneTransitioning(false))
AnimationFrame ==
  /\ frameCallbacks > 0
  /\ Commit("other", [Cur EXCEPT !.isSceneTransitioning = FALSE,
                                 !.frameCallbacks = @ - 1], Audio)

\* keydown 's': setIsMuted(prev => !prev)
KeyS == Commit("mute", [Cur EXCEPT !.isMuted = ~@], Audio)

\* the mute button (rendered when audios.length > 0): setIsMuted(!isMuted)
MuteButton ==
  /\ Rendered(Cur)
  /\ Len(audios) > 0
  /\ Commit("mute", [Cur EXCEPT !.isMuted = ~isMuted], Audio)

\* the positions of the volume slider that are tried
MasterLevels == {0, VolumeUnit \div 2, VolumeUnit}

\* a click on the volume slider:
\* setMasterVolume(newVolume); if (newVolume > 0) setIsMuted(false)
VolumeSlider ==
  /\ Rendered(Cur)
  /\ Len(audios) > 0
  /\ \E newVolume \in MasterLevels :
       Commit("volume",
              [Cur EXCEPT !.masterVolume = Clamp01(newVolume),
                          !.isMuted = IF newVolume > 0 THEN FALSE ELSE @],
              Audio)

\* the start-delay timer of startAudio fires; play() starts the playback or
\* is rejected
StartTimer ==
  \E t \in startTimers : \E allowed \in BOOLEAN :
    Commit("startTimer", Cur, StartTimerFire(Audio, t, allowed))

\* the step timer of a fade fires
FadeTimer ==
  \E f \in fades : Commit("fade", Cur, FadeTick(Audio, f))

\* a playing non-looping element reaches its end
AudioEnded ==
  \E e \in DOMAIN elements :
    /\ elements[e].playing
    /\ ~audios[elements[e].audio].loop
    /\ Commit("ended", Cur, EndedListener(Audio, e))

(* --------------------------- the audio manager ------------------------- *)
Manager ==
  [audios |-> localAudios, audioElements |-> audioElements,
   playingAudioId |-> playingAudioId, playPromises |-> playPromises]

\* getAudioElement(audio), audio = audios[k]; the onended handler keeps the
\* audio it was created for (audioLoop)
GetAudioElement(m, k) ==
  IF m.audioElements[k].exists THEN m
  ELSE [m EXCEPT !.audioElements[k] =
          [exists |-> TRUE, volume |-> Clamp01(m.audios[k].volume),
           loop |-> m.audios[k].loop, playing |-> FALSE,
           audioLoop |-> m.audios[k].loop]]

\* el.pause() on the element of audios[k], if there is one: the playback
\* stops and the browser rejects the element's pending play() promises
PauseElement(m, k) ==
  [m EXCEPT !.audioElements[k].playing = FALSE,
            !.playPromises = {[p EXCEPT !.aborted = (@ \/ p.audio = k)] : p \in @}]

\* togglePlay(audioId), audioId = audios[k].id, up to el.play()
TogglePlayOp(m, k) ==
  IF m.playingAudioId = k
  THEN [PauseElement(m, k) EXCEPT !.playingAudioId = 0]
  ELSE LET stopped == IF m.playingAudioId # 0
                      THEN PauseElement(m, m.playingAudioId) ELSE m
           got == GetAudioElement(stopped, k)
       IN  [got EXCEPT !.audioElements[k].volume = Clamp01(m.audios[k].volume),
                       !.audioElements[k].loop = m.audios[k].loop,
                       !.playPromises = @ \cup {[audio |-> k, aborted |-> FALSE]}]

\* updateAudio(audioId, { volume })
UpdateVolumeOp(m, k, volume) ==
  [m EXCEPT !.audioElements[k].volume =
              IF m.audioElements[k].exists THEN Clamp01(volume) ELSE @,
            !.audios[k].volume = volume]

\* updateAudio(audioId, { loop })
UpdateLoopOp(m, k, loop) ==
  [m EXCEPT !.audioElements[k].loop =
              IF m.audioElements[k].exists THEN loop ELSE @,
            !.audios[k].loop = loop]

\* one handled event of the AudioManager
ManagerCommit(op, m) ==
  /\ mounted = "manager"
  /\ localAudios' = m.audios
  /\ audioElements' = m.audioElements
  /\ playingAudioId' = m.playingAudioId
  /\ playPromises' = m.playPromises
  /\ lastOp' = op
  /\ UNCHANGED <<propVars, mounted, readerVars, editorVars>>

\* a click on the play button of an audio
TogglePlay ==
  \E k \in DOMAIN localAudios : ManagerCommit("togglePlay", TogglePlayOp(Manager, k))

\* .then(() => setPlayingAudioId(audioId))
PlayFulfilled ==
  \E p \in playPromises :
    /\ ~p.aborted
    /\ ManagerCommit("playFulfilled",
                     [Manager EXCEPT !.audioElements[p.audio].playing = TRUE,
                                     !.playingAudioId = p.audio,
                                     !.playPromises = @ \ {p}])

\* .catch(err => setPlayingAudioId(null))
PlayRejected ==
  \E p \in playPromises :
    ManagerCommit("playRejected",
                  [Manager EXCEPT !.playingAudioId = 0,
                                  !.playPromises = @ \ {p}])

\* el.onended of a playing element that does not loop
ManagerEnded ==
  \E k \in DOMAIN audioElements :
    /\ audioElements[k].playing
    /\ ~audioElements[k].loop
    /\ ManagerCommit("ended",
                     [Manager EXCEPT !.audioElements[k].playing = FALSE,
                                     !.playingAudioId =
                                        IF ~audioElements[k].audioLoop THEN 0 ELSE @])

\* the volume slider of the selected audio
UpdateVolume ==
  \E k \in DOMAIN localAudios : \E volume \in ManagerVolumes :
    ManagerCommit("updateVolume", UpdateVolumeOp(Manager, k, volume))

\* the loop checkbox of the selected audio
UpdateLoop ==
  \E k \in DOMAIN localAudios :
    ManagerCommit("updateLoop", UpdateLoopOp(Manager, k, ~localAudios[k].loop))

Next ==
  \/ KeyArrowRight
  \/ ViewClick
  \/ TouchEnd
  \/ KeyArrowLeft
  \/ KeyEscape
  \/ KeyM
  \/ ModeButton
  \/ KeyL
  \/ HandleChoice
  \/ Restart
  \/ SceneChangeTimeout
  \/ AnimationFrame

Spec == Init /\ [][Next]_vars

NextAudio ==
  \/ KeyArrowRight
  \/ SceneChangeTimeout
  \/ AnimationFrame
  \/ KeyS
  \/ MuteButton
  \/ VolumeSlider
  \/ StartTimer
  \/ FadeTimer
  \/ AudioEnded
  \/ TogglePlay
  \/ PlayFulfilled
  \/ PlayRejected
  \/ ManagerEnded
  \/ UpdateVolume
  \/ UpdateLoop

SpecAudio == InitAudio /\ [][NextAudio]_vars

(* ======================= reading-mode properties ======================= *)
\* helpers of the properties, stated on the props directly
AtLastPanelOfScene ==
  currentPanelIndex + 1 = PanelCount(story, currentSceneId)

OutgoingChoices ==
  {i \in 1..Len(choices) : choices[i].from_scene_id = currentSceneId}

LabeledChoices == {i \in OutgoingChoices : choices[i].labeled}

UnconditionalChoices == {i \in OutgoingChoices : ~choices[i].labeled}

FirstUnconditional ==
  CHOOSE i \in UnconditionalChoices : \A j \in UnconditionalChoices : i <= j

IsPrefix(p, q) ==
  /\ Len(p) <= Len(q)
  /\ \A i \in 1..Len(p) : p[i] = q[i]

\* the step is the scene change that an earlier `by` event scheduled
SceneChangeBy(by) ==
  /\ lastOp' = "sceneChange"
  /\ sceneTimers # <<>>
  /\ Head(sceneTimers).by = by

\* C1: in panel-to-panel mode the revealed-panel set always contains every
\* index from 0 to the current panel index, also after goNext crossed into
\* another scene
C1_RevealedCoversIndex ==
  (readingMode = "panel-to-panel") =>
    (0..currentPanelIndex) \subseteq revealedPanels

\* C1 witness: panel-to-panel mode, a goNext has just advanced to a later
\* panel of a scene that was entered through a scene change
C1_Witness ==
  /\ readingMode = "panel-to-panel"
  /\ lastOp = "goNext"
  /\ currentPanelIndex >= 1
  /\ history # <<>>

\* C2 as claimed: in panel-to-panel mode the revealed-panel set after a
\* goNext call, the scene change it starts included, is a superset of the set
\* before it
C2_AsClaimed ==
  [][ ( /\ readingMode = "panel-to-panel"
        /\ readingMode' = "panel-to-panel"
        /\ (lastOp' = "goNext" \/ SceneChangeBy("goNext")) )
      => revealedPanels \subseteq revealedPanels' ]_vars

\* C2 amended: in panel-to-panel mode no step but a scene change shrinks the
\* revealed-panel set, and a scene change replaces it by {0}
C2_MonotoneWithinScene ==
  [][ (readingMode = "panel-to-panel" /\ readingMode' = "panel-to-panel")
      => IF lastOp' = "sceneChange"
         THEN revealedPanels' = {0}
         ELSE revealedPanels \subseteq revealedPanels' ]_vars

\* C2 witness: in panel-to-panel mode a goNext has crossed into another scene
\* after more than one panel had been revealed
C2_Witness ==
  /\ readingMode = "panel-to-panel"
  /\ lastOp = "sceneChange"
  /\ history # <<>>
  /\ Cardinality(history[Len(history)].revealedPanels) >= 2
  /\ revealedPanels = {0}

\* C3: a switch from focus to panel-to-panel keeps the panel index and leaves
\* a revealed-panel set that contains every index up to it
C3_ModeSwitchBackfills ==
  [][ (readingMode = "focus" /\ readingMode' = "panel-to-panel")
      => /\ currentPanelIndex' = currentPanelIndex
         /\ (0..currentPanelIndex) \subseteq revealedPanels' ]_vars

\* C3 witness: the mode was just switched to panel-to-panel at a panel
\* index k >= 1
C3_Witness ==
  /\ lastOp = "mode"
  /\ readingMode = "panel-to-panel"
  /\ currentPanelIndex >= 1

\* C4 as claimed: whenever goNext is invoked at the last panel of a scene
\* without outgoing choices the story-ended state is entered, scene and panel
\* index unchanged; while story-ended holds goNext changes neither the scene,
\* the panel index nor the revealed-panel set
C4_AsClaimed ==
  [][ /\ (lastOp' = "goNext" /\ AtLastPanelOfScene /\ OutgoingChoices = {})
         => /\ storyEnded'
            /\ currentSceneId' = currentSceneId
            /\ currentPanelIndex' = currentPanelIndex
      /\ (lastOp' = "goNext" /\ storyEnded)
         => /\ currentSceneId' = currentSceneId
            /\ currentPanelIndex' = currentPanelIndex
            /\ revealedPanels' = revealedPanels ]_vars

\* C4 amended: the same, provided no scene transition is in progress when
\* goNext is invoked
C4_EndingSceneEnds ==
  [][ /\ ( /\ lastOp' = "goNext" /\ AtLastPanelOfScene /\ OutgoingChoices = {}
           /\ ~isSceneTransitioning )
         => /\ storyEnded'
            /\ currentSceneId' = currentSceneId
            /\ currentPanelIndex' = currentPanelIndex
      /\ (lastOp' = "goNext" /\ storyEnded)
         => /\ currentSceneId' = currentSceneId
            /\ currentPanelIndex' = currentPanelIndex
            /\ revealedPanels' = revealedPanels
            /\ sceneTimers' = sceneTimers ]_vars

\* C4 witness: goNext has just ended the story on the last panel of a scene
\* that has more than one panel
C4_Witness ==
  /\ lastOp = "goNext"
  /\ storyEnded
  /\ AtLastPanelOfScene
  /\ currentPanelIndex >= 1

\* the pending scene change is exactly the one to `target`, panel 0, {0}
ScheduledTo(target, by) ==
  sceneTimers' = <<[sceneId |-> target, panelIndex |-> 0,
                    revealedPanels |-> {0}, by |-> by]>>

\* the step carries out the pending scene change
SceneChangeLands ==
  /\ currentSceneId' = Head(sceneTimers).sceneId
  /\ currentPanelIndex' = 0
  /\ revealedPanels' = {0}

C6_AsClaimed ==
  [][ /\ (lastOp' = "goNext" /\ AtLastPanelOfScene /\ LabeledChoices # {})
         => /\ showChoices'
            /\ currentSceneId' = currentSceneId
            /\ currentPanelIndex' = currentPanelIndex
      /\ (lastOp' = "goNext" /\ showChoices)
         => UNCHANGED <<currentSceneId, currentPanelIndex, showChoices,
                        storyEnded, readingMode, revealedPanels, history,
                        isSceneTransitioning, sceneTimers>> ]_vars

\* C6 amended: the same, provided no scene transition is in progress when
\* goNext is invoked
C6_DecisionPointShowsChoices ==
  [][ /\ ( /\ lastOp' = "goNext" /\ AtLastPanelOfScene /\ LabeledChoices # {}
           /\ ~isSceneTransitioning )
         => /\ showChoices'
            /\ currentSceneId' = currentSceneId
            /\ currentPanelIndex' = currentPanelIndex
      /\ (lastOp' = "goNext" /\ showChoices)
         => UNCHANGED <<currentSceneId, currentPanelIndex, showChoices,
                        storyEnded, readingMode, revealedPanels, history,
                        isSceneTransitioning, sceneTimers>> ]_vars

\* C6 witness: goNext has just opened the choice list on the last panel of
\* a scene with more than one panel
C6_Witness ==
  /\ lastOp = "goNext"
  /\ showChoices
  /\ AtLastPanelOfScene
  /\ currentPanelIndex >= 1

C8_RestartResets ==
  [][ /\ (lastOp' = "restart")
         => /\ storyEnded
            /\ ~storyEnded'
            /\ history' = <<>>
            /\ ScheduledTo(StartSceneId(story), "restart")
      /\ SceneChangeBy("restart")
         => /\ SceneChangeLands
            /\ currentSceneId' = StartSceneId(story)
            /\ history' = <<>>
            /\ ~storyEnded' ]_vars

\* C8 witness: a restart has landed on the start scene (only restart leaves
\* an empty history behind a scene change); the story ends only on the other
\* scene, so the reader had left the start scene before
C8_Witness ==
  /\ lastOp = "sceneChange"
  /\ history = <<>>
  /\ currentSceneId = StartSceneId(story)
  /\ currentPanelIndex = 0
  /\ revealedPanels = {0}
  /\ ~storyEnded
  /\ ~IsEndingScene(choices, StartSceneId(story))
  /\ PanelCount(story, StartSceneId(story)) >= 2

EffectiveVolume(volume, muted, master) ==
  IF muted THEN 0
  ELSE IF volume * master > VolumeUnit * VolumeUnit THEN VolumeUnit
  ELSE IF volume * master < 0 THEN 0
  ELSE (volume * master) \div VolumeUnit

\* every volume an audio element of the reader or of the manager holds is in [0,1]
VolumesInRange ==
  /\ \A e \in DOMAIN elements : elements[e].volume \in 0..VolumeUnit
  /\ \A k \in DOMAIN audioElements : audioElements[k].volume \in 0..VolumeUnit

\* the reader gives an audio it starts, and every active audio that is not
\* fading out when isMuted or masterVolume changes, the effective volume
ReaderAppliesEffective ==
  /\ \A x \in activeAudios' :
       (\A y \in activeAudios : y.id # x.id)
         => elements'[x.element].volume =
              EffectiveVolume(audios[x.audio].volume, isMuted', masterVolume')
  /\ (isMuted' # isMuted \/ masterVolume' # masterVolume)
       => \A x \in activeAudios' :
            ~x.isFadingOut
              => elements'[x.element].volume =
                   EffectiveVolume(audios[x.audio].volume, isMuted', masterVolume')

\* a fade-in runs from 0 to the effective volume of the isMuted and
\* masterVolume that startAudio closed over
FadeInTargetsEffective ==
  \A f \in fades' \ fades :
    (f.onComplete = "none" /\ f.currentStep = 1)
      => \E t \in startTimers \ startTimers' :
           /\ t.element = f.element
           /\ f.currentVolume = 0
           /\ f.volumeDiff =
                EffectiveVolume(audios[elements[f.element].audio].volume,
                                t.muted, t.master)

\* the manager gives the element it plays, and the element of an audio whose
\* volume is edited, the stored volume clamped to [0,1]
ManagerAppliesClamped ==
  /\ \A p \in playPromises' \ playPromises :
       audioElements'[p.audio].volume =
         EffectiveVolume(localAudios[p.audio].volume, FALSE, VolumeUnit)
  /\ \A k \in DOMAIN localAudios :
       (lastOp' = "updateVolume" /\ localAudios'[k] # localAudios[k]
        /\ audioElements[k].exists)
         => audioElements'[k].volume =
              EffectiveVolume(localAudios'[k].volume, FALSE, VolumeUnit)

C11_AsClaimed ==
  /\ [](isMuted => \A x \in activeAudios : elements[x.element].volume = 0)
  /\ [][audios' = audios]_vars

\* the step changes the scene or the current panel
ScopeChanges ==
  \/ currentSceneId' # currentSceneId
  \/ currentPanelIndex' # currentPanelIndex

\* the scene or panel scope of the row does not match the scene and panel
\* the step leads to
ScopeLost(row) ==
  \/ row.scene_id # NoScene /\ row.scene_id # currentSceneId'
  \/ row.panel_id # NoPanel
     /\ row.panel_id # <<currentSceneId', currentPanelIndex'>>

\* after the step the element is paused, has no source, and the audio is
\* not in the active set
StoppedAfter(e, id) ==
  /\ ~elements'[e].playing
  /\ ~elements'[e].hasSrc
  /\ \A y \in activeAudios' : y.id # id

\* C12: on every scene or panel change each active audio whose scope is lost
\* is stopped at once when fade_out_ms is 0 and starts a fade to 0 when it is
\* positive; the last step of that fade pauses the element, clears its source
\* and removes the audio from the active set; a story-scoped looping audio
\* stays in the active set with its element untouched
C12_ScopeExitStops ==
  [][ /\ \A x \in activeAudios :
           (ScopeChanges /\ ~x.isFadingOut /\ ScopeLost(audios[x.audio]))
             => IF audios[x.audio].fade_out_ms > 0
                THEN /\ [x EXCEPT !.isFadingOut = TRUE] \in activeAudios'
                     /\ \E f \in fades' :
                          /\ f.element = x.element
                          /\ f.onComplete = "stop"
                          /\ f.currentVolume + f.volumeDiff = 0
                ELSE StoppedAfter(x.element, x.id)
      /\ \A f \in fades \ fades' :
           (f.onComplete = "stop" /\ f.currentStep = FadeSteps - 1)
             => /\ StoppedAfter(f.element, f.id)
                /\ elements'[f.element].volume = 0
      /\ \A x \in activeAudios :
           (ScopeChanges /\ IsStoryAudio(audios[x.audio]) /\ audios[x.audio].loop)
             => /\ x \in activeAudios'
                /\ elements'[x.element] = elements[x.element] ]_vars

\* C12 witness: the reader is in s2 and the audio of s1, which fades out,
\* has just been stopped by the last step of its fade after it had played
C12_Witness ==
  /\ lastOp = "fade"
  /\ currentSceneId = SceneList[2]
  /\ audios[1].scene_id = SceneList[1]
  /\ audios[1].fade_out_ms > 0
  /\ activeAudios = {}
  /\ fades = {}
  /\ ~elements[1].hasSrc
  /\ elements[1].volume = 0

\* no start delay, fade or scene transition is pending
AtRest ==
  /\ startTimers = {}
  /\ fades = {}
  /\ sceneTimers = <<>>
  /\ frameCallbacks = 0

\* the story, scene or panel scope of the row applies to the current scene
\* and panel
ScopeApplies(row) ==
  /\ row.scene_id # NoScene => row.scene_id = currentSceneId
  /\ row.panel_id # NoPanel => row.panel_id = <<currentSceneId, currentPanelIndex>>

\* C13: when the reader rests on a scene and panel with no start delay and no
\* fade pending, every autoplay looping audio whose scope applies is in the
\* active set, not fading out, with its element playing unless the browser
\* refused play() (the element then still has its source and its entry)
C13_AsClaimed ==
  (mounted = "reader" /\ AtRest)
    => \A k \in 1..Len(audios) :
         (audios[k].autoplay /\ audios[k].loop /\ ScopeApplies(audios[k]))
           => \E x \in activeAudios :
                /\ x.audio = k
                /\ ~x.isFadingOut
                /\ elements[x.element].hasSrc

\* the start timers whose play() was rejected in this step: the timer has
\* fired and its element is not playing
RejectedStarts ==
  {t \in startTimers \ startTimers' : ~elements'[t.element].playing}

\* the play() promises of the audio manager rejected in this step
RejectedPromises ==
  IF lastOp' = "playRejected" THEN playPromises \ playPromises' ELSE {}

\* C19: after play() is rejected for an audio the state does not record it as
\* playing (reader: no entry of the audio in the active-audio set; audio
\* manager: playingAudioId is not the audio), and the rejection starts no
\* new play(): no new start timer, no new play() promise
C19_AsClaimed ==
  [][ /\ (mounted = "reader" /\ lastOp' = "startTimer")
           => \A t \in RejectedStarts :
                /\ \A x \in activeAudios' : x.audio # elements[t.element].audio
                /\ startTimers' \subseteq startTimers
      /\ (mounted = "manager")
           => \A p \in RejectedPromises :
                /\ playingAudioId' # p.audio
                /\ playPromises' \subseteq playPromises ]_vars

(* ------------------------------ fade races ----------------------------- *)
\* the row tried for the races of fades: scoped to the first panel of s1,
\* not looping, at 50%, with a fade-in and a fade-out of one second
FadeRows ==
  {AudioRow([scene_id |-> SceneList[1], panel_id |-> <<SceneList[1], 0>>],
            FALSE, VolumeUnit \div 2, 1000, 1000)}

\* the reader of the looping story with one audio row that fades in and out
InitFades ==
  /\ story = LoopStory
  /\ choices = LoopChoices
  /\ audios \in {<<row>> : row \in FadeRows}
  /\ ReaderInit
  /\ ReaderMounted

NextFades ==
  \/ KeyArrowRight
  \/ SceneChangeTimeout
  \/ AnimationFrame
  \/ StartTimer
  \/ FadeTimer
  \/ AudioEnded

SpecFades == InitFades /\ [][NextFades]_vars

\* the elements of the entries that are fading out
FadingOut == {x.element : x \in {y \in activeAudios : y.isFadingOut}}

\* C22: at most one fade drives an element at any time; an element that is
\* fading out has no pending delayed start and no other fade, and its
\* volume never increases while it is fading out
C22_AsClaimed ==
  [][ /\ \A f, g \in fades' : f.element = g.element => f = g
      /\ \A e \in FadingOut' : \A t \in startTimers' : t.element # e
      /\ \A e \in FadingOut \cap FadingOut' :
           elements'[e].volume <= elements[e].volume ]_vars

\* the preview elements of the AudioManager that are playing
PlayingElements == {k \in DOMAIN audioElements : audioElements[k].playing}

\* C30: in the AudioManager at most one preview element plays at any time,
\* whatever play buttons are clicked and whenever the play() requests are
\* answered
C30_AsClaimed ==
  mounted = "manager" => Cardinality(PlayingElements) <= 1

(* --------------------------- finished audios --------------------------- *)
\* the rows tried for an audio that plays to its end: every scope, not
\* looping, at both volumes, without fades
EndingRows ==
  {AudioRow(sc, FALSE, v, 0, 0) : sc \in AudioScopes, v \in AudioVolumes}

\* the reader of the looping story with one audio row that does not loop
InitEnding ==
  /\ story = LoopStory
  /\ choices = LoopChoices
  /\ audios \in {<<row>> : row \in EndingRows}
  /\ ReaderInit
  /\ ReaderMounted

NextEnding ==
  \/ KeyArrowRight
  \/ SceneChangeTimeout
  \/ AnimationFrame
  \/ MuteButton
  \/ VolumeSlider
  \/ StartTimer
  \/ AudioEnded

SpecEnding == InitEnding /\ [][NextEnding]_vars

\* the rows whose scope applies at a scene and panel index
InScope(sceneId, panelIndex) ==
  {ShouldBePlaying(sceneId, CurrentPanel(sceneId, panelIndex))[i] :
     i \in 1..Len(ShouldBePlaying(sceneId, CurrentPanel(sceneId, panelIndex)))}

\* the rows that have played to their end: the 'ended' listener has removed
\* the Map entry and the element still has its source (without a fade-out an
\* audio that leaves its scope loses the source at once)
Finished ==
  {k \in 1..Len(audios) :
     /\ ~audios[k].loop
     /\ EntriesOf(Audio, audios[k].id) = {}
     /\ \E e \in DOMAIN elements :
          elements[e].audio = k /\ elements[e].hasSrc /\ ~elements[e].playing}

\* C29: an audio that does not loop and has played to its end is not started
\* again while its scope still applies, whatever else happens
C29_AsClaimed ==
  [][mounted = "reader"
       => \A k \in Finished \cap InScope(currentSceneId, currentPanelIndex) :
            k \in InScope(currentSceneId', currentPanelIndex')
              => EntriesOf(Audio', audios[k].id) = {}]_vars

(* ============================ TextEditor =============================== *)
\* src/src/components/TextEditor.tsx. A text carries its base position,
\* width, bubble type and style and one content row per language; a content
\* row carries style_override, null or an object whose "__" keys override
\* position, width and bubble type and whose other keys override the style.
\* A new text and a new content row carry isNew; dbId is the id of the row
\* in storage, 0 while there is none.

MaxTexts == 1

DefaultWidth == 150
MinWidth == 80

\* the language tabs tried: a language with a content row and one without
LanguageTabs == {"tr", "ja"}

BubbleTypes == {"speech", "thought"}

FontWeights == {"bold", "normal"}

\* the positions a drag ends at, after clamping to the panel
Positions == {<<20, 20>>, <<90, 40>>}

\* the horizontal pointer positions of a resize
PointerXs == {100, 170}

\* an object without own keys
EmptyObject == [k \in {} |-> 0]

\* style_override: null, or an object with the own keys DOMAIN fields
NullOverride == [isNull |-> TRUE, fields |-> EmptyObject]

ObjectOverride(f) == [isNull |-> FALSE, fields |-> f]

\* { ...f, ...g }
Spread(f, g) ==
  [k \in DOMAIN f \cup DOMAIN g |-> IF k \in DOMAIN g THEN g[k] ELSE f[k]]

\* the keys of an override that do not start with "__"
StyleKeys(f) ==
  DOMAIN f \ {"__position_x", "__position_y", "__width", "__bubble_type"}

\* text.contents.find(c => c.language === lang): its position, 0 if none
FindContent(text, lang) ==
  FindFirst({i \in 1..Len(text.contents) : text.contents[i].language = lang})

\* content?.style_override
OverrideOf(text, lang) ==
  IF FindContent(text, lang) = 0
    THEN NullOverride
    ELSE text.contents[FindContent(text, lang)].style_override

\* override?.key ?? fallback
OrElse(override, key, fallback) ==
  IF ~override.isNull /\ key \in DOMAIN override.fields
    THEN override.fields[key]
    ELSE fallback

\* getEffectiveValues
GetEffectiveValues(text, lang) ==
  \* text.width is a number in every state of the editor (loadTexts and
  \* addText store 150 for a missing width), so "?? 150" never applies
  [position_x |-> OrElse(OverrideOf(text, lang), "__position_x", text.position_x),
   position_y |-> OrElse(OverrideOf(text, lang), "__position_y", text.position_y),
   width |-> OrElse(OverrideOf(text, lang), "__width", text.width),
   bubble_type |-> OrElse(OverrideOf(text, lang), "__bubble_type", text.bubble_type),
   style |-> IF OverrideOf(text, lang).isNull
               THEN text.style
               ELSE Spread(text.style,
                           [k \in StyleKeys(OverrideOf(text, lang).fields) |->
                              OverrideOf(text, lang).fields[k]])]

\* hasOverride
HasOverride(text, lang) ==
  /\ ~OverrideOf(text, lang).isNull
  /\ DOMAIN OverrideOf(text, lang).fields # {}

\* the "__" key an update of a base property is stored under
OverrideKey(k) == "__" \o k

\* updateTextForLanguage for one text; updates.props holds the keys
\* position_x, position_y, width, bubble_type that are defined, updates.style
\* the style keys
UpdateText(t, lang, updates, linked) ==
  IF linked
    THEN [t EXCEPT
            !.position_x = IF "position_x" \in DOMAIN updates.props
                             THEN updates.props["position_x"] ELSE @,
            !.position_y = IF "position_y" \in DOMAIN updates.props
                             THEN updates.props["position_y"] ELSE @,
            !.width = IF "width" \in DOMAIN updates.props
                        THEN updates.props["width"] ELSE @,
            !.bubble_type = IF "bubble_type" \in DOMAIN updates.props
                              THEN updates.props["bubble_type"] ELSE @,
            !.style = Spread(@, updates.style)]
    ELSE [t EXCEPT
            !.contents =
              [i \in 1..Len(@) |->
                 IF @[i].language # lang
                   THEN @[i]
                   ELSE [@[i] EXCEPT
                           !.style_override =
                             ObjectOverride(
                               Spread(Spread(@.fields,
                                             [k \in {OverrideKey(p) : p \in DOMAIN updates.props} |->
                                                updates.props[CHOOSE p \in DOMAIN updates.props :
                                                                OverrideKey(p) = k]]),
                                      updates.style))]]]

UpdateTextForLanguage(ts, textId, lang, updates, linked) ==
  [i \in 1..Len(ts) |->
     IF i # textId THEN ts[i] ELSE UpdateText(ts[i], lang, updates, linked)]

\* clearOverrides, dropping the "__" keys only
ClearOverridesKeepStyle(ts, textId, lang) ==
  [i \in 1..Len(ts) |->
     IF i # textId
       THEN ts[i]
       ELSE [ts[i] EXCEPT
               !.contents =
                 [j \in 1..Len(@) |->
                    IF @[j].language = lang /\ ~@[j].style_override.isNull
                      THEN [@[j] EXCEPT
                              !.style_override =
                                ObjectOverride([k \in StyleKeys(@.fields) |-> @.fields[k]])]
                      ELSE @[j]]]]

\* clearOverrides
ClearOverrides(ts, textId, lang) ==
  [i \in 1..Len(ts) |->
     IF i # textId
       THEN ts[i]
       ELSE [ts[i] EXCEPT
               !.contents =
                 [j \in 1..Len(@) |->
                    IF @[j].language = lang
                      THEN [@[j] EXCEPT !.style_override = NullOverride]
                      ELSE @[j]]]]

\* DEFAULT_STYLE, the keys the model follows
DefaultStyle == [fontWeight |-> "bold"]

\* the text addText creates, in a panel whose bounds start at (0, 0)
NewText ==
  [position_x |-> 20, position_y |-> 20, width |-> DefaultWidth,
   bubble_type |-> "speech", style |-> DefaultStyle,
   contents |-> <<[language |-> "tr", text |-> "Metin girin...",
                   style_override |-> NullOverride, isNew |-> TRUE, dbId |-> 0],
                  [language |-> "en", text |-> "Enter text...",
                   style_override |-> NullOverride, isNew |-> TRUE, dbId |-> 0]>>,
   isNew |-> TRUE, dbId |-> 0]

\* the TextEditor of a panel without texts; no reader, no AudioManager
InitText ==
  /\ mounted = "textEditor"
  /\ texts = <<>>
  /\ selectedTextId = 0
  /\ activeLanguage = "tr"
  /\ linkedMode = TRUE
  /\ hasChanges = FALSE
  /\ clearedOverride = 0
  /\ NoFlowEditor
  /\ NoDashboard
  /\ NoSceneEditor
  /\ NoBackend
  /\ NoPreview
  /\ NoPanelSave
  /\ NoReader

\* the handlers that call setHasChanges(true)
TextEdits == {"addText", "drag", "resize", "bubbleType", "bold",
              "clearOverrides", "updateTextContent"}

\* one handled event of the TextEditor
TextCommit(op, ts, sel, lang, linked) ==
  /\ mounted = "textEditor"
  /\ texts' = ts
  /\ selectedTextId' = sel
  /\ activeLanguage' = lang
  /\ linkedMode' = linked
  /\ hasChanges' = (hasChanges \/ op \in TextEdits)
  /\ clearedOverride' = IF op = "clearOverrides"
                          THEN OverrideOf(texts[selectedTextId], activeLanguage).fields
                          ELSE 0
  /\ lastOp' = op
  /\ UNCHANGED <<propVars, mounted, readerVars, managerVars, panelSaveVars,
                 previewVars,
                 flowVars,
                 dashboardVars, sceneEditorVars, backendVars>>

\* an update of the selected text for the active language
UpdateSelected(op, props, style) ==
  /\ selectedTextId # 0
  /\ TextCommit(op,
                UpdateTextForLanguage(texts, selectedTextId, activeLanguage,
                                      [props |-> props, style |-> style],
                                      linkedMode),
                selectedTextId, activeLanguage, linkedMode)

\* the "add text" button
AddText ==
  /\ Len(texts) < MaxTexts
  /\ TextCommit("addText", Append(texts, NewText), Len(texts) + 1,
                activeLanguage, linkedMode)

\* mousemove while a text is dragged
MouseMoveDrag ==
  /\ selectedTextId # 0
  /\ \E pos \in Positions :
       UpdateSelected("drag",
                      [k \in {"position_x", "position_y"} |->
                         IF k = "position_x" THEN pos[1] ELSE pos[2]],
                      EmptyObject)

\* mousemove while a text is resized
MouseMoveResize ==
  \E x \in PointerXs :
    /\ selectedTextId # 0
    /\ \E w \in {x - GetEffectiveValues(texts[selectedTextId], activeLanguage).position_x} :
         UpdateSelected("resize",
                        [k \in {"width"} |-> IF w < MinWidth THEN MinWidth ELSE w],
                        EmptyObject)

\* a bubble type button
BubbleTypeButton ==
  /\ selectedTextId # 0
  /\ \E type \in BubbleTypes :
       UpdateSelected("bubbleType", [k \in {"bubble_type"} |-> type], EmptyObject)

\* the bold button toggles the effective font weight
BoldButton ==
  /\ selectedTextId # 0
  /\ UpdateSelected("bold", EmptyObject,
                    [k \in {"fontWeight"} |->
                       IF GetEffectiveValues(texts[selectedTextId], activeLanguage).style["fontWeight"] = "bold"
                         THEN "normal" ELSE "bold"])

\* the "clear overrides" button, shown in unlinked mode when the active
\* language has overrides
ClearOverridesButton ==
  /\ selectedTextId # 0
  /\ ~linkedMode
  /\ HasOverride(texts[selectedTextId], activeLanguage)
  /\ TextCommit("clearOverrides",
                ClearOverrides(texts, selectedTextId, activeLanguage),
                selectedTextId, activeLanguage, linkedMode)

\* the linked / unlinked switch
LinkedModeButton ==
  /\ mounted = "textEditor"
  /\ TextCommit("linkedMode", texts, selectedTextId, activeLanguage, ~linkedMode)

\* a language tab
LanguageTab ==
  /\ mounted = "textEditor"
  /\ \E lang \in LanguageTabs :
       TextCommit("language", texts, selectedTextId, lang, linkedMode)

NextText ==
  \/ AddText
  \/ MouseMoveDrag
  \/ MouseMoveResize
  \/ BubbleTypeButton
  \/ BoldButton
  \/ ClearOverridesButton
  \/ LinkedModeButton
  \/ LanguageTab

SpecText == InitText /\ [][NextText]_vars

\* the base values of a text, as getEffectiveValues reports them
BaseValues(text) ==
  [position_x |-> text.position_x,
   position_y |-> text.position_y,
   width |-> text.width,
   bubble_type |-> text.bubble_type,
   style |-> text.style]

\* the text with a content row of the language that never had an override
\* object
NeverOverridden(text, lang) ==
  [text EXCEPT
     !.contents = [j \in 1..Len(@) |->
                     IF @[j].language = lang
                       THEN [language |-> lang, style_override |-> NullOverride]
                       ELSE @[j]]]

\* C14: once the overrides of a language have been cleared, whatever had
\* been set for it (position, width, bubble type, style), the effective
\* values of the text for that language are exactly its base values, the
\* same as with a content row that never had an override object
C14_ClearRestoresBase ==
  (mounted = "textEditor" /\ lastOp = "clearOverrides")
    => /\ GetEffectiveValues(texts[selectedTextId], activeLanguage)
            = BaseValues(texts[selectedTextId])
       /\ GetEffectiveValues(texts[selectedTextId], activeLanguage)
            = GetEffectiveValues(NeverOverridden(texts[selectedTextId], activeLanguage),
                                 activeLanguage)
       /\ OverrideOf(texts[selectedTextId], activeLanguage) = NullOverride

\* overrides of all four kinds, each different from the base value, were
\* cleared, and the base values are not the initial ones
C14_Witness ==
  /\ mounted = "textEditor"
  /\ lastOp = "clearOverrides"
  /\ DOMAIN clearedOverride
       = {"__position_x", "__position_y", "__width", "__bubble_type", "fontWeight"}
  /\ clearedOverride["__position_x"] # texts[selectedTextId].position_x
  /\ clearedOverride["__width"] # texts[selectedTextId].width
  /\ clearedOverride["__bubble_type"] # texts[selectedTextId].bubble_type
  /\ clearedOverride["fontWeight"] # texts[selectedTextId].style["fontWeight"]
  /\ BaseValues(texts[selectedTextId]) # BaseValues(NewText)

\* the languages a text is shown in: those with a content row and the tabs
TextLanguages == LanguageTabs \cup {"tr", "en"}

\* the values the last update of the selected text changed, for a language
ChangedValues(op, text, lang) ==
  IF op = "drag"
    THEN <<GetEffectiveValues(text, lang).position_x,
           GetEffectiveValues(text, lang).position_y>>
    ELSE IF op = "resize"
      THEN <<GetEffectiveValues(text, lang).width>>
      ELSE IF op = "bubbleType"
        THEN <<GetEffectiveValues(text, lang).bubble_type>>
        ELSE <<GetEffectiveValues(text, lang).style["fontWeight"]>>

\* C28: a change of position, width, bubble type or style made in linked
\* mode is stored in the base values of the text, and the effective value
\* of the changed property is that new value for every language
C28_AsClaimed ==
  [][(/\ mounted = "textEditor"
      /\ linkedMode
      /\ lastOp' \in {"drag", "resize", "bubbleType", "bold"})
       => \A lang \in TextLanguages :
            ChangedValues(lastOp', texts'[selectedTextId], lang)
              = ChangedValues(lastOp', NeverOverridden(texts'[selectedTextId], lang), lang)]_vars

(* ------------------------------ saveTexts ------------------------------ *)
\* panel_texts and panel_text_contents rows get their id from the database
\* when they are inserted. A row remembers the text of the editor it was
\* written for (`text`, its position in texts). Edits made while a save is
\* running are not followed.
MaxTextSaves == 3

\* what is typed into the content field
TypedContent == "Merhaba"

\* updateTextContent for one text
UpdateContent(t, lang, newContent) ==
  IF FindContent(t, lang) # 0
    THEN [t EXCEPT !.contents[FindContent(t, lang)].text = newContent]
    ELSE [t EXCEPT !.contents =
            Append(@, [language |-> lang, text |-> newContent,
                       style_override |-> NullOverride, isNew |-> TRUE, dbId |-> 0])]

\* updateTextContent
UpdateTextContent(ts, textId, lang, newContent) ==
  [i \in 1..Len(ts) |->
     IF i # textId THEN ts[i] ELSE UpdateContent(ts[i], lang, newContent)]

\* the editor and the backend as one record
TextSave ==
  [texts |-> texts, hasChanges |-> hasChanges, saving |-> saving,
   pending |-> pending, db |-> db]

\* the end of the try block: every text and content row loses isNew
TextsSavedOp(v) ==
  [v EXCEPT !.texts = [i \in 1..Len(@) |->
                         [@[i] EXCEPT
                            !.isNew = FALSE,
                            !.contents = [j \in 1..Len(@) |-> [@[j] EXCEPT !.isNew = FALSE]]]],
            !.hasChanges = FALSE,
            !.saving = FALSE]

\* saveTexts() up to its first await; the request of text i is the
\* panel_texts row for j = 0 and the content row j otherwise
SaveTextsOp(v) ==
  IF Len(v.texts) = 0
    THEN TextsSavedOp([v EXCEPT !.db.saves = @ + 1])
    ELSE [v EXCEPT !.saving = TRUE,
                   !.pending = @ \cup {[kind |-> "saveTexts", i |-> 1, j |-> 0, newId |-> 0]},
                   !.db.saves = @ + 1]

\* what a successful answer to the request r writes: rows and, in place,
\* the dbId and isNew of the text or content row
TextRequestDone(v, r) ==
  LET t == v.texts[r.i]
      id == v.db.nextId
  IN  IF r.j = 0
        THEN IF t.isNew
               THEN [v EXCEPT !.db.panel_texts = @ \cup {[id |-> id, text |-> r.i]},
                              !.db.nextId = @ + 1]
               ELSE v
        ELSE IF t.isNew
               THEN [v EXCEPT !.db.panel_text_contents =
                                @ \cup {[id |-> id, panel_text_id |-> r.newId, text |-> r.i,
                                         language |-> t.contents[r.j].language]},
                              !.db.nextId = @ + 1]
               ELSE IF t.contents[r.j].dbId # 0
                      THEN v
                      ELSE [v EXCEPT !.db.panel_text_contents =
                                       @ \cup {[id |-> id, panel_text_id |-> t.dbId, text |-> r.i,
                                                language |-> t.contents[r.j].language]},
                                     !.db.nextId = @ + 1,
                                     !.texts[r.i].contents[r.j].dbId = id,
                                     !.texts[r.i].contents[r.j].isNew = FALSE]

\* the id of the panel_texts row the request r inserted, kept for its
\* content rows
NewTextId(v, r) ==
  IF r.j = 0 /\ v.texts[r.i].isNew THEN v.db.nextId ELSE r.newId

\* after the last content row of a new text: text.dbId = newText.id,
\* text.isNew = false
TextDone(v, r, newId) ==
  IF r.j = Len(v.texts[r.i].contents) /\ v.texts[r.i].isNew
    THEN [v EXCEPT !.texts[r.i].dbId = newId, !.texts[r.i].isNew = FALSE]
    ELSE v

\* the loop moves on to the next request, or the save ends
NextTextRequest(v, r, newId) ==
  IF r.j < Len(v.texts[r.i].contents)
    THEN [v EXCEPT !.pending = (@ \ {r}) \cup {[r EXCEPT !.j = @ + 1, !.newId = newId]}]
    ELSE IF r.i < Len(v.texts)
           THEN [v EXCEPT !.pending = (@ \ {r}) \cup {[r EXCEPT !.i = @ + 1, !.j = 0, !.newId = 0]}]
           ELSE TextsSavedOp([v EXCEPT !.pending = @ \ {r}])

\* an answer of the backend; an error is thrown into the catch block
TextSaveSettledOp(v, r, ok) ==
  IF ok
    THEN NextTextRequest(TextDone(TextRequestDone(v, r), r, NewTextId(v, r)),
                         r, NewTextId(v, r))
    ELSE [v EXCEPT !.pending = @ \ {r}, !.saving = FALSE]

\* the save has ended without an error
TextsSaved(v) == v.pending = {} /\ ~v.saving /\ ~v.hasChanges

\* the TextEditor of a panel without texts
InitTextSave ==
  /\ mounted = "textEditor"
  /\ texts = <<>>
  /\ selectedTextId = 0
  /\ activeLanguage = "tr"
  /\ linkedMode = TRUE
  /\ hasChanges = FALSE
  /\ clearedOverride = 0
  /\ saving = FALSE
  /\ pending = {}
  /\ db = [panel_texts |-> {}, panel_text_contents |-> {}, nextId |-> 1, saves |-> 0]
  /\ NoFlowEditor
  /\ NoDashboard
  /\ NoSceneEditor
  /\ NoPreview
  /\ NoReader

\* one step of a save
TextSaveCommit(op, v) ==
  /\ mounted = "textEditor"
  /\ texts' = v.texts
  /\ hasChanges' = v.hasChanges
  /\ saving' = v.saving
  /\ pending' = v.pending
  /\ db' = v.db
  /\ lastOp' = op
  /\ UNCHANGED <<propVars, mounted, readerVars, managerVars, selectedTextId,
                 activeLanguage, linkedMode, clearedOverride, flowVars,
                 dashboardVars, sceneEditorVars, previewVars>>

\* typing into the content field of the selected text
ContentInput ==
  /\ selectedTextId # 0
  /\ ~saving
  /\ TextCommit("updateTextContent",
                UpdateTextContent(texts, selectedTextId, activeLanguage, TypedContent),
                selectedTextId, activeLanguage, linkedMode)

\* the save button, disabled while saving and without changes
SaveTextsButton ==
  /\ ~saving
  /\ hasChanges
  /\ db.saves < MaxTextSaves
  /\ \E v \in {SaveTextsOp(TextSave)} :
       TextSaveCommit(IF TextsSaved(v) THEN "textsSaved" ELSE "saveTexts", v)

\* the backend answers the request of a save
TextSaveSettled ==
  \E r \in pending : \E ok \in BOOLEAN :
    /\ r.kind = "saveTexts"
    /\ \E v \in {TextSaveSettledOp(TextSave, r, ok)} :
         TextSaveCommit(IF ~ok THEN "textsSaveFailed"
                        ELSE IF TextsSaved(v) THEN "textsSaved" ELSE "textsSaveStep",
                        v)

NextTextSave ==
  \/ AddText
  \/ ContentInput
  \/ LanguageTab
  \/ SaveTextsButton
  \/ TextSaveSettled

SpecTextSave == InitTextSave /\ [][NextTextSave]_vars

\* C27: after a save, whether or not an earlier save failed, storage holds
\* one panel_texts row for each text of the editor, and at no time more than
\* one panel_text_contents row for a text and a language
C27_AsClaimed ==
  mounted = "textEditor"
    => /\ lastOp = "textsSaved"
            => \A i \in 1..Len(texts) :
                 Cardinality({row \in db.panel_texts : row.text = i}) = 1
       /\ \A a, b \in db.panel_text_contents :
            (a.text = b.text /\ a.language = b.language) => a = b

(* ========================== StoryFlowEditor ============================ *)
\* src/src/app/panel/flow/[storyId]/StoryFlowEditor.tsx. Scenes are nodes,
\* choices are edges; every edge of the editor carries the id, the ends and
\* the label of its choice, so the edges state is read off flowChoices. A
\* handler that awaits the backend is an entry of pending between the event
\* and each response; what it read from its closure when the event was
\* handled is stored in the entry.

MaxPending == 2

\* scenes of the story opened in the editor
FlowSceneCount == 3

\* what the author types into the prompt of a new connection
Answers == {"", "1", " ", "go"}

\* String.prototype.trim on the answers tried
Trim(t) == IF t = " " THEN "" ELSE t

\* the connections the author draws
ConnectPairs == {<<1, 2>>}

\* choice.choice_text && choice.choice_text.trim() !== ''
IsLabeled(c) == c.choice_text # "" /\ Trim(c.choice_text) # ""

\* the labeled choices of cs that leave the scene
LabeledFrom(cs, sceneId) ==
  {i \in 1..Len(cs) : cs[i].from_scene_id = sceneId /\ IsLabeled(cs[i])}

\* Array.prototype.filter on a sequence
RECURSIVE FilterOut(_, _)
FilterOut(cs, id) ==
  IF cs = <<>> THEN <<>>
  ELSE IF Head(cs).id = id THEN FilterOut(Tail(cs), id)
  ELSE <<Head(cs)>> \o FilterOut(Tail(cs), id)

\* getInitialPosition: the persisted position of the scene, else the default
\* grid
GridColumns == 4
GridStepX == 280
GridStepY == 220
GridMargin == 50

\* getInitialPosition, columns and rows exchanged
GetInitialPositionTransposed(ps, sceneId, index) ==
  IF FindFirst({k \in 1..Len(ps) : ps[k].scene_id = sceneId}) # 0
    THEN [x |-> ps[FindFirst({k \in 1..Len(ps) : ps[k].scene_id = sceneId})].position_x,
          y |-> ps[FindFirst({k \in 1..Len(ps) : ps[k].scene_id = sceneId})].position_y]
    ELSE [x |-> (index \div GridColumns) * GridStepX + GridMargin,
          y |-> (index % GridColumns) * GridStepY + GridMargin]

\* getInitialPosition
GetInitialPosition(ps, sceneId, index) ==
  IF FindFirst({k \in 1..Len(ps) : ps[k].scene_id = sceneId}) # 0
    THEN [x |-> ps[FindFirst({k \in 1..Len(ps) : ps[k].scene_id = sceneId})].position_x,
          y |-> ps[FindFirst({k \in 1..Len(ps) : ps[k].scene_id = sceneId})].position_y]
    ELSE [x |-> (index % GridColumns) * GridStepX + GridMargin,
          y |-> (index \div GridColumns) * GridStepY + GridMargin]

\* initialNodes
InitialNodes(scs, ps) ==
  [i \in 1..Len(scs) |->
     [id |-> scs[i].id, position |-> GetInitialPosition(ps, scs[i].id, i - 1)]]

\* the editor's state and the backend as one record
Flow ==
  [scenes |-> flowScenes, choices |-> flowChoices, positions |-> positions,
   nodes |-> nodes, timer |-> positionSaveTimer, pending |-> pending,
   db |-> db]

\* an entry of pending
Request(kind, stage, scene, target, text, id, flag) ==
  [kind |-> kind, stage |-> stage, scene |-> scene, target |-> target,
   text |-> text, id |-> id, flag |-> flag]

\* the id the backend gives to a new choice row
NewChoiceId(f) ==
  CHOOSE n \in 1..(Len(f.choices) + Cardinality(f.db.choices) + Cardinality(f.pending) + 1) :
    /\ \A i \in 1..Len(f.choices) : f.choices[i].id # n
    /\ \A c \in f.db.choices : c.id # n
    /\ \A p \in f.pending : p.id # n
    /\ \A m \in 1..(n - 1) :
         \/ \E i \in 1..Len(f.choices) : f.choices[i].id = m
         \/ \E c \in f.db.choices : c.id = m
         \/ \E p \in f.pending : p.id = m

SetDecision(scs, sceneId, value) ==
  [i \in 1..Len(scs) |->
     IF scs[i].id = sceneId THEN [scs[i] EXCEPT !.is_decision_scene = value]
     ELSE scs[i]]

\* onConnect up to the insert: the connection is new, the prompt was
\* answered
OnConnectOp(f, source, target, answer) ==
  IF \E i \in 1..Len(f.choices) :
       f.choices[i].from_scene_id = source /\ f.choices[i].to_scene_id = target
    THEN f
    ELSE [f EXCEPT
            !.pending = @ \cup
              {Request("connect", "insert", source, target,
                       IF Trim(answer) = "" \/ Trim(answer) = "1" THEN "" ELSE Trim(answer),
                       0,
                       /\ ~(Trim(answer) = "" \/ Trim(answer) = "1")
                       /\ \E i \in 1..Len(f.scenes) :
                            f.scenes[i].id = source /\ ~f.scenes[i].is_decision_scene)}]

\* onConnect after the insert
InsertSettledOp(f, p, ok) ==
  IF ~ok
    THEN [f EXCEPT !.pending = @ \ {p}]
    ELSE [f EXCEPT
            !.db.choices = @ \cup
              {[id |-> NewChoiceId(f), from_scene_id |-> p.scene,
                to_scene_id |-> p.target, choice_text |-> p.text]},
            !.choices = Append(@, [id |-> NewChoiceId(f), from_scene_id |-> p.scene,
                                   to_scene_id |-> p.target, choice_text |-> p.text]),
            !.pending = (@ \ {p}) \cup
              (IF p.flag
                 THEN {Request("connect", "flag", p.scene, 0, "", 0, TRUE)}
                 ELSE {})]

\* onEdgeClick up to the delete: the author confirmed
OnEdgeClickOp(f, c) ==
  [f EXCEPT
     !.pending = @ \cup
       {Request("delete", "delete", c.from_scene_id, 0, "", c.id,
                {i \in LabeledFrom(f.choices, c.from_scene_id) : f.choices[i].id # c.id} = {})}]

\* onEdgeClick after the delete
DeleteSettledOp(f, p, ok) ==
  IF ~ok
    THEN [f EXCEPT !.pending = @ \ {p}]
    ELSE [f EXCEPT
            !.db.choices = {c \in @ : c.id # p.id},
            !.choices = FilterOut(@, p.id),
            !.pending = (@ \ {p}) \cup
              (IF p.flag
                 THEN {Request("delete", "flag", p.scene, 0, "", 0, FALSE)}
                 ELSE {})]

\* onConnect / onEdgeClick after the update of is_decision_scene, whose
\* error is not looked at
FlagSettledOp(f, p, ok) ==
  [f EXCEPT
     !.db.decision = IF ok THEN [@ EXCEPT ![p.scene] = p.flag] ELSE @,
     !.scenes = SetDecision(@, p.scene, p.flag),
     !.pending = @ \ {p}]

\* handleSetStartScene after the update that clears every start flag, whose
\* error is not looked at
StartClearedOp(f, p, ok) ==
  [f EXCEPT
     !.db.start = IF ok THEN [i \in DOMAIN @ |-> FALSE] ELSE @,
     !.pending = (@ \ {p}) \cup {Request("setStart", "set", p.scene, 0, "", 0, TRUE)}]

\* handleSetStartScene after the update that sets the flag
StartSetOp(f, p, ok) ==
  IF ~ok
    THEN [f EXCEPT !.pending = @ \ {p}]
    ELSE [f EXCEPT
            !.db.start = [@ EXCEPT ![p.scene] = TRUE],
            !.scenes = [i \in 1..Len(f.scenes) |->
                          [f.scenes[i] EXCEPT !.is_start_scene = (f.scenes[i].id = p.scene)]],
            !.pending = @ \ {p}]

\* the choice lists the editor is opened with
FlowChoice(id, from, to, text) ==
  [id |-> id, from_scene_id |-> from, to_scene_id |-> to, choice_text |-> text]

InitialChoices ==
  {<<>>,
   <<FlowChoice(1, 1, 2, "go")>>,
   <<FlowChoice(1, 1, 2, "go"), FlowChoice(2, 1, 3, "stay")>>,
   <<FlowChoice(1, 1, 2, ""), FlowChoice(2, 2, 1, "go")>>}

\* the editor of a story whose decision flags agree with its choices and
\* whose first scene is the start scene; no position is persisted
InitFlow ==
  /\ mounted = "flowEditor"
  /\ flowChoices \in InitialChoices
  /\ flowScenes = [i \in 1..FlowSceneCount |->
                     [id |-> i, title |-> "a", is_start_scene |-> (i = 1),
                      is_decision_scene |-> (LabeledFrom(flowChoices, i) # {})]]
  /\ positions = <<>>
  /\ nodes = InitialNodes(flowScenes, positions)
  /\ positionSaveTimer = <<>>
  /\ pending = {}
  /\ db = [choices |-> {flowChoices[i] : i \in 1..Len(flowChoices)},
           decision |-> [i \in 1..FlowSceneCount |-> flowScenes[i].is_decision_scene],
           start |-> [i \in 1..FlowSceneCount |-> flowScenes[i].is_start_scene],
           positions |-> <<>>,
           refused |-> FALSE]
  /\ NoTextEditor
  /\ NoDashboard
  /\ NoSceneEditor
  /\ NoPreview
  /\ NoPanelSave
  /\ NoReader

\* one step of the StoryFlowEditor
FlowCommit(op, f) ==
  /\ mounted = "flowEditor"
  /\ Cardinality(f.pending) <= MaxPending
  /\ flowScenes' = f.scenes
  /\ flowChoices' = f.choices
  /\ positions' = f.positions
  /\ nodes' = f.nodes
  /\ positionSaveTimer' = f.timer
  /\ pending' = f.pending
  /\ db' = f.db
  /\ lastOp' = op
  /\ UNCHANGED <<propVars, mounted, readerVars, managerVars, panelSaveVars,
                 previewVars,
                 textVars,
                 dashboardVars, sceneEditorVars>>

\* a connection is drawn and the prompt answered
OnConnect ==
  /\ mounted = "flowEditor"
  /\ \E pair \in ConnectPairs, answer \in Answers :
       FlowCommit("connect", OnConnectOp(Flow, pair[1], pair[2], answer))

\* the backend answers the insert of a choice
InsertSettled ==
  \E p \in pending, ok \in BOOLEAN :
    /\ p.kind = "connect" /\ p.stage = "insert"
    /\ FlowCommit("insertSettled", InsertSettledOp(Flow, p, ok))

\* an edge is clicked and the deletion confirmed
OnEdgeClick ==
  \E i \in 1..Len(flowChoices) :
    FlowCommit("edgeClick", OnEdgeClickOp(Flow, flowChoices[i]))

\* the backend answers the delete of a choice
DeleteSettled ==
  \E p \in pending, ok \in BOOLEAN :
    /\ p.kind = "delete" /\ p.stage = "delete"
    /\ FlowCommit("deleteSettled", DeleteSettledOp(Flow, p, ok))

\* the backend answers the update of is_decision_scene
FlagSettled ==
  \E p \in pending, ok \in BOOLEAN :
    /\ p.stage = "flag"
    /\ FlowCommit("flagSettled", FlagSettledOp(Flow, p, ok))

\* "make start scene" of the context menu
HandleSetStartScene ==
  \E i \in 1..Len(flowScenes) :
    FlowCommit("setStart",
               [Flow EXCEPT !.pending = @ \cup
                  {Request("setStart", "clear", flowScenes[i].id, 0, "", 0, TRUE)}])

\* the backend answers the update that clears the start flags
StartCleared ==
  \E p \in pending, ok \in BOOLEAN :
    /\ p.kind = "setStart" /\ p.stage = "clear"
    /\ FlowCommit("startCleared", StartClearedOp(Flow, p, ok))

\* the backend answers the update that sets the start flag
StartSet ==
  \E p \in pending, ok \in BOOLEAN :
    /\ p.kind = "setStart" /\ p.stage = "set"
    /\ FlowCommit("startSet", StartSetOp(Flow, p, ok))

NextFlow ==
  \/ OnConnect
  \/ InsertSettled
  \/ OnEdgeClick
  \/ DeleteSettled
  \/ FlagSettled

SpecFlow == InitFlow /\ [][NextFlow]_vars

\* no edge creation or deletion is under way
EdgesSettled == \A p \in pending : p.kind \notin {"connect", "delete"}

\* the decision flag of every scene of the editor agrees with its choices
FlagsAgree ==
  \A i \in 1..Len(flowScenes) :
    flowScenes[i].is_decision_scene
      <=> \E k \in 1..Len(flowChoices) :
            /\ flowChoices[k].from_scene_id = flowScenes[i].id
            /\ flowChoices[k].choice_text # ""

\* C15 (as claimed): once the edge creations and deletions are over, the
\* decision flag of a scene is set exactly when a choice with non-empty text
\* leaves it
C15_AsClaimed ==
  (mounted = "flowEditor" /\ EdgesSettled) => FlagsAgree

(* =========================== PanelDashboard ============================ *)
\* src/src/app/layout.tsx, PanelDashboard: the scenes of the selected story.
\* Each handler works on the selectedStory of the render in which the event
\* was handled; the entry of pending carries that array (closure).

MaxScenes == 3

\* handlers of the dashboard that wait for the backend at the same time
MaxDashboardPending == 1

\* an entry of pending of the dashboard
SceneRequest(kind, stage, scene, flag, closure) ==
  [kind |-> kind, stage |-> stage, scene |-> scene, flag |-> flag,
   closure |-> closure]

\* the dashboard's state and the backend as one record
Dashboard ==
  [scenes |-> selectedStory, form |-> sceneForm, loading |-> loading,
   pending |-> pending, db |-> db]

\* the scene ids known to the backend, the page or a handler
UsedSceneIds(d) ==
  DOMAIN d.db.start
    \cup {d.scenes[i].id : i \in 1..Len(d.scenes)}
    \cup UNION {{p.closure[i].id : i \in 1..Len(p.closure)} : p \in d.pending}

\* the id the backend gives to a new scene row
NewSceneId(d) ==
  CHOOSE n \in 1..(Cardinality(UsedSceneIds(d)) + 1) :
    /\ n \notin UsedSceneIds(d)
    /\ \A m \in 1..(n - 1) : m \in UsedSceneIds(d)

\* the scenes of a story with the given start flags, as rows of the backend
SceneTable(scs) ==
  [id \in {scs[i].id : i \in 1..Len(scs)} |->
     \E i \in 1..Len(scs) : scs[i].id = id /\ scs[i].is_start_scene]

\* handleCreateScene up to the upload
HandleCreateSceneOp(d) ==
  [d EXCEPT
     !.loading = TRUE,
     !.pending = @ \cup
       {SceneRequest("create", "upload", 0,
                     d.form.is_start_scene \/ Len(d.scenes) = 0, d.scenes)}]

\* handleCreateScene after the upload and the load of the image
UploadSettledOp(d, p, ok) ==
  IF ~ok
    THEN [d EXCEPT !.loading = FALSE, !.pending = @ \ {p}]
    ELSE [d EXCEPT !.pending = (@ \ {p}) \cup {[p EXCEPT !.stage = "insert"]}]

\* handleCreateScene after the insert
SceneInsertSettledOp(d, p, ok) ==
  IF ~ok
    THEN [d EXCEPT !.loading = FALSE, !.pending = @ \ {p}]
    ELSE [d EXCEPT
            !.db.start = [id \in DOMAIN @ \cup {NewSceneId(d)} |->
                            IF id \in DOMAIN @ THEN @[id] ELSE p.flag],
            !.scenes = Append(p.closure,
                              [id |-> NewSceneId(d), is_start_scene |-> p.flag]),
            !.form = [is_start_scene |-> FALSE],
            !.loading = FALSE,
            !.pending = @ \ {p}]

\* handleDeleteScene after the delete
SceneDeleteSettledOp(d, p, ok) ==
  IF ~ok
    THEN [d EXCEPT !.pending = @ \ {p}]
    ELSE [d EXCEPT
            !.db.start = [id \in DOMAIN @ \ {p.scene} |-> @[id]],
            !.scenes = FilterOut(p.closure, p.scene),
            !.pending = @ \ {p}]

\* handleToggleStartScene after the update that clears every start flag,
\* whose error is not looked at
ToggleClearedOp(d, p, ok) ==
  [d EXCEPT
     !.db.start = IF ok THEN [id \in DOMAIN @ |-> FALSE] ELSE @,
     !.pending = (@ \ {p}) \cup {[p EXCEPT !.stage = "set"]}]

\* handleToggleStartScene after the update that sets the flag
ToggleSetOp(d, p, ok) ==
  IF ~ok
    THEN [d EXCEPT !.pending = @ \ {p}]
    ELSE [d EXCEPT
            !.db.start = [id \in DOMAIN @ |-> IF id = p.scene THEN TRUE ELSE @[id]],
            !.scenes = [i \in 1..Len(p.closure) |->
                          [id |-> p.closure[i].id,
                           is_start_scene |-> (p.closure[i].id = p.scene)]],
            !.pending = @ \ {p}]

\* the scene lists the dashboard is opened with
InitialScenes ==
  {<<>>,
   <<[id |-> 1, is_start_scene |-> TRUE]>>,
   <<[id |-> 1, is_start_scene |-> TRUE], [id |-> 2, is_start_scene |-> FALSE]>>}

\* the dashboard with a story selected that has no scene or one start scene
InitDashboard ==
  /\ mounted = "dashboard"
  /\ selectedStory \in InitialScenes
  /\ sceneForm = [is_start_scene |-> FALSE]
  /\ loading = FALSE
  /\ pending = {}
  /\ db = [start |-> SceneTable(selectedStory)]
  /\ NoTextEditor
  /\ NoFlowEditor
  /\ NoSceneEditor
  /\ NoPreview
  /\ NoPanelSave
  /\ NoReader

\* one step of the PanelDashboard
DashboardCommit(op, d) ==
  /\ mounted = "dashboard"
  /\ Cardinality(d.pending) <= MaxDashboardPending
  /\ selectedStory' = d.scenes
  /\ sceneForm' = d.form
  /\ loading' = d.loading
  /\ pending' = d.pending
  /\ db' = d.db
  /\ lastOp' = op
  /\ UNCHANGED <<propVars, mounted, readerVars, managerVars, panelSaveVars,
                 previewVars,
                 textVars,
                 flowVars, sceneEditorVars>>

\* the "new scene" button opens the modal with an empty form
NewSceneButton ==
  /\ mounted = "dashboard"
  /\ DashboardCommit("newScene", [Dashboard EXCEPT !.form = [is_start_scene |-> FALSE]])

\* the "start scene" checkbox of the modal
StartSceneCheckbox ==
  /\ mounted = "dashboard"
  /\ \E checked \in BOOLEAN :
       DashboardCommit("checkbox", [Dashboard EXCEPT !.form = [is_start_scene |-> checked]])

\* the "create" button of the modal, disabled while loading
HandleCreateScene ==
  /\ ~loading
  /\ Cardinality(DOMAIN db.start) < MaxScenes
  /\ DashboardCommit("createScene", HandleCreateSceneOp(Dashboard))

\* the storage answers the upload and the image loads
UploadSettled ==
  \E p \in pending, ok \in BOOLEAN :
    /\ p.kind = "create" /\ p.stage = "upload"
    /\ DashboardCommit("uploadSettled", UploadSettledOp(Dashboard, p, ok))

\* the backend answers the insert of a scene
SceneInsertSettled ==
  \E p \in pending, ok \in BOOLEAN :
    /\ p.kind = "create" /\ p.stage = "insert"
    /\ DashboardCommit("sceneInsertSettled", SceneInsertSettledOp(Dashboard, p, ok))

\* the delete button of a scene, confirmed
HandleDeleteScene ==
  \E i \in 1..Len(selectedStory) :
    DashboardCommit("deleteScene",
                    [Dashboard EXCEPT !.pending = @ \cup
                       {SceneRequest("delete", "delete", selectedStory[i].id,
                                     FALSE, selectedStory)}])

\* the backend answers the delete of a scene
SceneDeleteSettled ==
  \E p \in pending, ok \in BOOLEAN :
    /\ p.kind = "delete" /\ p.stage = "delete"
    /\ DashboardCommit("sceneDeleteSettled", SceneDeleteSettledOp(Dashboard, p, ok))

\* the "start" button of a scene
HandleToggleStartScene ==
  \E i \in 1..Len(selectedStory) :
    DashboardCommit("toggleStart",
                    [Dashboard EXCEPT !.pending = @ \cup
                       {SceneRequest("toggleStart", "clear", selectedStory[i].id,
                                     TRUE, selectedStory)}])

\* the backend answers the update that clears the start flags
ToggleCleared ==
  \E p \in pending, ok \in BOOLEAN :
    /\ p.kind = "toggleStart" /\ p.stage = "clear"
    /\ DashboardCommit("toggleCleared", ToggleClearedOp(Dashboard, p, ok))

\* the backend answers the update that sets the start flag
ToggleSet ==
  \E p \in pending, ok \in BOOLEAN :
    /\ p.kind = "toggleStart" /\ p.stage = "set"
    /\ DashboardCommit("toggleSet", ToggleSetOp(Dashboard, p, ok))

\* the scenes of a story in the dashboard or in the flow editor
InitScenes == InitDashboard \/ InitFlow

NextScenes ==
  \/ NewSceneButton
  \/ StartSceneCheckbox
  \/ HandleCreateScene
  \/ UploadSettled
  \/ SceneInsertSettled
  \/ HandleDeleteScene
  \/ SceneDeleteSettled
  \/ HandleToggleStartScene
  \/ ToggleCleared
  \/ ToggleSet
  \/ HandleSetStartScene
  \/ StartCleared
  \/ StartSet

SpecScenes == InitScenes /\ [][NextScenes]_vars

\* the start scenes of the story in the backend
StartRows == {id \in DOMAIN db.start : db.start[id]}

\* the start scenes of the story in the component on the page
StartScenes ==
  IF mounted = "dashboard"
    THEN {i \in 1..Len(selectedStory) : selectedStory[i].is_start_scene}
    ELSE {i \in 1..Len(flowScenes) : flowScenes[i].is_start_scene}

\* C16 (as claimed): once the scene creations, deletions and set-start
\* operations are over, whether the backend accepted them or not, a story
\* with a scene has exactly one start scene, in the backend and on the page
C16_AsClaimed ==
  (mounted \in {"dashboard", "flowEditor"} /\ pending = {})
    => /\ DOMAIN db.start # {} => Cardinality(StartRows) = 1
       /\ (mounted = "dashboard" /\ selectedStory # <<>>) => Cardinality(StartScenes) = 1
       /\ mounted = "flowEditor" => Cardinality(StartScenes) = 1

(* ================= StoryFlowEditor: nodes and positions ================ *)
\* A drag and its end are one step: React Flow reports the final position
\* with dragging === false. The "positions saved" indicator and the Save
\* button are not part of this specification. savePositions reads from the
\* positions of its closure only which scenes have a row, so the closure
\* kept with a timer or a save is that set of scene ids.

MaxGridScenes == 6

\* the nodes the author drags, counted from the first
MaxMovable == 2

\* calls of savePositions that wait for the backend at the same time
MaxSaves == 1

\* where a drag ends
DragTargets == {[x |-> 100, y |-> 100], [x |-> 300, y |-> 200]}

\* a position read from scene_positions
PersistedPosition == [x |-> 120, y |-> 340]

Titles == {"a", "b"}

\* the scenes that have a row in ps
Positioned(ps) == {ps[k].scene_id : k \in 1..Len(ps)}

PositionRow(sceneId, pos) ==
  [scene_id |-> sceneId, position_x |-> pos.x, position_y |-> pos.y]

\* the effect that rebuilds the nodes when the scenes or the positions
\* change: existingNode?.position || getInitialPosition(scene.id, index)
RefreshNodes(scs, ps, prevNodes) ==
  [i \in 1..Len(scs) |->
     [id |-> scs[i].id,
      position |->
        IF FindFirst({k \in 1..Len(prevNodes) : prevNodes[k].id = scs[i].id}) # 0
          THEN prevNodes[FindFirst({k \in 1..Len(prevNodes) : prevNodes[k].id = scs[i].id})].position
          ELSE GetInitialPosition(ps, scs[i].id, i - 1)]]

\* handleTitleChange
HandleTitleChange(f, sceneId, newTitle) ==
  [f EXCEPT
     !.scenes = [i \in 1..Len(@) |->
                   IF f.scenes[i].id = sceneId
                     THEN [f.scenes[i] EXCEPT !.title = newTitle]
                     ELSE f.scenes[i]]]

\* handleNodesChange for a position change with dragging === false: the
\* pending timer is cleared and a new one started for this change
HandleNodesChange(f, k, pos) ==
  [f EXCEPT
     !.nodes[k].position = pos,
     !.timer = <<[ids |-> {f.nodes[k].id}, closure |-> Positioned(f.positions)]>>]

\* Array.prototype.filter: the nodes whose id is in ids, in order
RECURSIVE MovedNodes(_, _)
MovedNodes(ns, ids) ==
  IF ns = <<>> THEN <<>>
  ELSE IF Head(ns).id \in ids THEN <<Head(ns)>> \o MovedNodes(Tail(ns), ids)
  ELSE MovedNodes(Tail(ns), ids)

\* the callback of the timer: savePositions(movedNodes) up to its first await
PositionSaveTimerOp(f) ==
  [f EXCEPT
     !.timer = <<>>,
     !.pending = @ \cup
       (IF MovedNodes(f.nodes, f.timer[1].ids) = <<>>
          THEN {}
          ELSE {[kind |-> "save",
                 queue |-> MovedNodes(f.nodes, f.timer[1].ids),
                 closure |-> f.timer[1].closure]})]

\* savePositions after the update or insert of the first node of the queue;
\* neither error is looked at
PositionSettledOp(f, p, ok) ==
  [f EXCEPT
     !.db.positions =
       IF ~ok THEN @
       ELSE IF Head(p.queue).id \in p.closure
         THEN [k \in 1..Len(@) |->
                 IF @[k].scene_id = Head(p.queue).id
                   THEN PositionRow(Head(p.queue).id, Head(p.queue).position)
                   ELSE @[k]]
         ELSE Append(@, PositionRow(Head(p.queue).id, Head(p.queue).position)),
     !.db.refused = @ \/ ~ok,
     !.positions =
       IF ok /\ Head(p.queue).id \notin p.closure
         THEN Append(@, PositionRow(Head(p.queue).id, Head(p.queue).position))
         ELSE @,
     !.pending = (@ \ {p}) \cup
       (IF Tail(p.queue) = <<>> THEN {} ELSE {[p EXCEPT !.queue = Tail(@)]})]

\* the position rows the editor is opened with: none, or one for the first
\* or the last scene
InitialPositions(n) ==
  {<<>>} \cup {<<PositionRow(k, PersistedPosition)>> : k \in {1, n}}

\* the editor of a story without choices whose number of scenes is in counts
InitNodesOf(counts) ==
  /\ mounted = "flowEditor"
  /\ \E n \in counts :
       /\ flowScenes = [i \in 1..n |->
                          [id |-> i, title |-> "a", is_start_scene |-> (i = 1),
                           is_decision_scene |-> FALSE]]
       /\ positions \in InitialPositions(n)
       /\ db = [choices |-> {},
                decision |-> [i \in 1..n |-> FALSE],
                start |-> [i \in 1..n |-> i = 1],
                positions |-> positions,
                refused |-> FALSE]
  /\ flowChoices = <<>>
  /\ nodes = InitialNodes(flowScenes, positions)
  /\ positionSaveTimer = <<>>
  /\ pending = {}
  /\ NoTextEditor
  /\ NoDashboard
  /\ NoSceneEditor
  /\ NoPreview
  /\ NoPanelSave
  /\ NoReader

\* one step of the editor followed by the effect that rebuilds the nodes
NodesCommit(op, f) ==
  FlowCommit(op, [f EXCEPT !.nodes = RefreshNodes(f.scenes, f.positions, f.nodes)])

\* the title of a scene node is edited
SceneTitleChange ==
  /\ mounted = "flowEditor"
  /\ \E newTitle \in Titles :
       NodesCommit("titleChange", HandleTitleChange(Flow, flowScenes[1].id, newTitle))

\* a node is dragged and dropped
NodeDragEnd ==
  \E k \in 1..Len(nodes), pos \in DragTargets :
    /\ k <= MaxMovable
    /\ NodesCommit("dragEnd", HandleNodesChange(Flow, k, pos))

\* 500 ms have passed since the last drag end
PositionSaveTimer ==
  /\ positionSaveTimer # <<>>
  /\ Cardinality(pending) < MaxSaves
  /\ NodesCommit("saveTimer", PositionSaveTimerOp(Flow))

\* the backend answers the write of a position
PositionSettled ==
  \E p \in pending, ok \in BOOLEAN :
    /\ p.kind = "save"
    /\ NodesCommit("positionSettled", PositionSettledOp(Flow, p, ok))

\* the editor of a story whose scenes are the nodes the author drags
InitNodes == InitNodesOf({MaxMovable})

NextNodes ==
  \/ NodeDragEnd
  \/ PositionSaveTimer
  \/ PositionSettled

SpecNodes == InitNodes /\ [][NextNodes]_vars

\* the editor of a story of up to MaxGridScenes scenes
InitGrid == InitNodesOf(1..MaxGridScenes)

\* the nodes are laid out, renamed and dragged; no save runs
NextGrid ==
  \/ SceneTitleChange
  \/ NodeDragEnd

SpecGrid == InitGrid /\ [][NextGrid]_vars

\* no save is scheduled or under way
PositionsAtRest == positionSaveTimer = <<>> /\ pending = {}

\* every node is where the editor would put it when opened again
PositionsStored ==
  \A k \in 1..Len(nodes) :
    nodes[k].position = GetInitialPosition(db.positions, nodes[k].id, k - 1)

\* C17 (as claimed): once 500 ms have passed without a drag end and the
\* writes have been answered, every node whose drag ended has its final
\* coordinates in storage, unless the backend refused a write
C17_AsClaimed ==
  (mounted = "flowEditor" /\ PositionsAtRest /\ ~db.refused) => PositionsStored

\* the node of the scene at list index i has not been dragged
NotDragged(i) == nodes[i + 1].position \notin DragTargets

\* the position rows of the scene at list index i
RowsOf(i) == {k \in 1..Len(positions) : positions[k].scene_id = flowScenes[i + 1].id}

\* C20: a scene at list index i without a persisted position is placed at
\* x = (i mod 4) * 280 + 50, y = floor(i / 4) * 220 + 50, a scene with a
\* persisted position exactly at that position, and the node stays there
\* until it is dragged
C20_GridPlacement ==
  mounted = "flowEditor"
    => \A i \in 0..(Len(flowScenes) - 1) :
         NotDragged(i)
           => /\ nodes[i + 1].id = flowScenes[i + 1].id
              /\ RowsOf(i) = {}
                   => /\ nodes[i + 1].position.x = (i % 4) * 280 + 50
                      /\ nodes[i + 1].position.y = (i \div 4) * 220 + 50
              /\ RowsOf(i) # {}
                   => \E k \in RowsOf(i) :
                        /\ nodes[i + 1].position.x = positions[k].position_x
                        /\ nodes[i + 1].position.y = positions[k].position_y

\* six scenes after a title change: the fifth sits in the second row of the
\* grid, the sixth at its persisted position, the first has been dragged
C20_Witness ==
  /\ mounted = "flowEditor"
  /\ lastOp = "titleChange"
  /\ Len(nodes) = 6
  /\ nodes[5].position = [x |-> 50, y |-> 270]
  /\ nodes[6].position = PersistedPosition
  /\ RowsOf(5) # {}
  /\ ~NotDragged(0)

(* ============================ SceneEditor ============================== *)
\* src/src/app/layout.tsx, SceneEditor. A panel carries its id, its index and
\* its bounding box; shape data is read by none of these functions and is
\* left out. The panel list is kept in index order (the panel list of the
\* side bar sorts localPanels by index on every render).
MaxEditorPanels == 3
MaxPanelHistory == 2
Tolerance == 50
HistoryLimit == 50

\* the bounding boxes of the panels of a scene; widths and heights are even,
\* so the centres are integers
PanelBoxes ==
  {[x |-> x, y |-> y, w |-> 100, h |-> 60] : x \in {0, 100, 200}, y \in {0, 40, 80}}

\* a.x + a.w / 2
CenterX(p) == p.x + p.w \div 2

\* a.y + a.h / 2
CenterY(p) == p.y + p.h \div 2

\* Math.abs
AbsoluteValue(v) == IF v < 0 THEN 0 - v ELSE v

\* the compare function of sortPanelsByReadingOrder
CompareReadingOrder(a, b, direction) ==
  IF AbsoluteValue(CenterY(a) - CenterY(b)) < Tolerance
  THEN IF direction = "ltr" THEN CenterX(a) - CenterX(b)
                            ELSE CenterX(b) - CenterX(a)
  ELSE CenterY(a) - CenterY(b)

\* the compare function is a consistent comparator for the panels
\* (ECMAScript, Array.prototype.sort): "equal", "less" and "greater" are
\* transitive on them
ConsistentComparator(panels, direction) ==
  \A i, j, k \in 1..Len(panels) :
    LET ij == CompareReadingOrder(panels[i], panels[j], direction)
        jk == CompareReadingOrder(panels[j], panels[k], direction)
        ik == CompareReadingOrder(panels[i], panels[k], direction)
    IN  /\ (ij = 0 /\ jk = 0) => ik = 0
        /\ (ij < 0 /\ jk < 0) => ik < 0
        /\ (ij > 0 /\ jk > 0) => ik > 0

\* the orders of n elements
Orders(n) ==
  {f \in [1..n -> 1..n] : \A i, j \in 1..n : f[i] = f[j] => i = j}

\* the order f is the stable ascending order of the compare function
StableOrder(panels, direction, f) ==
  \A i, j \in 1..Len(panels) :
    i < j => \/ CompareReadingOrder(panels[f[i]], panels[f[j]], direction) < 0
             \/ /\ CompareReadingOrder(panels[f[i]], panels[f[j]], direction) = 0
                /\ f[i] < f[j]

\* [...panels].sort(compare): the stable ascending order when the compare
\* function is consistent; the order is implementation-defined when it is
\* not, and every order is a possible outcome
SortOrders(panels, direction) ==
  IF ConsistentComparator(panels, direction)
  THEN {f \in Orders(Len(panels)) : StableOrder(panels, direction, f)}
  ELSE Orders(Len(panels))

\* sortPanelsByReadingOrder(panels, direction): the lists it may return
SortPanelsByReadingOrder(panels, direction) ==
  {[i \in 1..Len(panels) |-> [panels[f[i]] EXCEPT !.index = i - 1]] :
     f \in SortOrders(panels, direction)}

\* the state of the SceneEditor as one record
Editor ==
  [localPanels |-> localPanels, readingDirection |-> readingDirection,
   history |-> panelHistory, historyIndex |-> historyIndex]

\* newHistory.slice(-50)
LastEntries(h) ==
  IF Len(h) > HistoryLimit THEN SubSeq(h, Len(h) - HistoryLimit + 1, Len(h)) ELSE h

\* pushHistory(action) of the SceneEditor, for the render whose panel list
\* is `closure`
PushPanelHistory(e, closure) ==
  [e EXCEPT !.history = LastEntries(Append(SubSeq(@, 1, e.historyIndex + 1), closure)),
            !.historyIndex = IF @ + 1 < HistoryLimit - 1 THEN @ + 1
                                                         ELSE HistoryLimit - 1]

\* sortPanels(), `sorted` being the list sortPanelsByReadingOrder returns
SortPanelsOp(e, sorted) ==
  PushPanelHistory([e EXCEPT !.localPanels = sorted], e.localPanels)

\* the SceneEditor of a scene with two or three panels
InitSceneEditor ==
  /\ mounted = "sceneEditor"
  /\ \E n \in 2..MaxEditorPanels : \E boxes \in [1..n -> PanelBoxes] :
       localPanels = [i \in 1..n |->
                        [id |-> i, index |-> i - 1, x |-> boxes[i].x,
                         y |-> boxes[i].y, w |-> boxes[i].w, h |-> boxes[i].h]]
  /\ readingDirection = "ltr"
  /\ panelHistory = <<>>
  /\ historyIndex = -1
  /\ lastEdit = NoEdit
  /\ NoTextEditor
  /\ NoFlowEditor
  /\ NoDashboard
  /\ NoBackend
  /\ NoPreview
  /\ NoPanelSave
  /\ NoReader

\* the handlers that edit the panel list
PanelEdits == {"addPanel", "deletePanel", "sortPanels"}

\* one handled event of the SceneEditor; lastEdit records the list before and
\* after an edit and whether an undo has followed it directly
SceneEditorCommit(op, e) ==
  /\ mounted = "sceneEditor"
  /\ localPanels' = e.localPanels
  /\ readingDirection' = e.readingDirection
  /\ panelHistory' = e.history
  /\ historyIndex' = e.historyIndex
  /\ lastEdit' = IF op \in PanelEdits
                 THEN [before |-> localPanels, after |-> e.localPanels,
                       stage |-> "edited"]
                 ELSE IF op = "undo" /\ lastEdit.stage = "edited"
                 THEN [lastEdit EXCEPT !.stage = "undone"]
                 ELSE IF op = "readingDirection" THEN lastEdit
                 ELSE [lastEdit EXCEPT !.stage = "other"]
  /\ lastOp' = op
  /\ UNCHANGED <<propVars, mounted, readerVars, managerVars, panelSaveVars,
                 previewVars,
                 textVars,
                 flowVars, dashboardVars, backendVars>>

\* the Sort button, disabled for fewer than two panels
SortButton ==
  /\ Len(localPanels) >= 2
  /\ Len(panelHistory) < MaxPanelHistory
  /\ \E sorted \in SortPanelsByReadingOrder(localPanels, readingDirection) :
       SceneEditorCommit("sortPanels", SortPanelsOp(Editor, sorted))

\* the reading-direction button
ReadingDirectionButton ==
  /\ mounted = "sceneEditor"
  /\ SceneEditorCommit("readingDirection",
       [Editor EXCEPT !.readingDirection = IF @ = "ltr" THEN "rtl" ELSE "ltr"])

NextSceneEditor ==
  \/ SortButton
  \/ ReadingDirectionButton

SpecSceneEditor == InitSceneEditor /\ [][NextSceneEditor]_vars

\* the panels at list positions i and j are in the same row
SameRow(i, j) ==
  AbsoluteValue(CenterY(localPanels[i]) - CenterY(localPanels[j])) < 50

\* C18: after a sort, any two panels whose vertical centres differ by less
\* than 50 appear in order of horizontal centre (ascending for left-to-right,
\* descending for right-to-left), any two panels in different rows appear
\* top-to-bottom, and the panels are indexed 0..n-1 in list order
C18_AsClaimed ==
  (mounted = "sceneEditor" /\ lastOp = "sortPanels")
    => /\ \A i, j \in 1..Len(localPanels) :
            i < j
              => /\ SameRow(i, j)
                      => IF readingDirection = "ltr"
                         THEN CenterX(localPanels[i]) <= CenterX(localPanels[j])
                         ELSE CenterX(localPanels[i]) >= CenterX(localPanels[j])
                 /\ ~SameRow(i, j)
                      => CenterY(localPanels[i]) < CenterY(localPanels[j])
       /\ \A i \in 1..Len(localPanels) : localPanels[i].index = i - 1

(* ---------------------------- panel history ---------------------------- *)
\* the boxes a rectangle can be drawn at in the history runs
DrawnBoxes == {[x |-> 0, y |-> 0, w |-> 100, h |-> 60],
               [x |-> 200, y |-> 80, w |-> 100, h |-> 60]}

\* generateId(): an id no panel of the list or of the history carries
NewPanelId(e) ==
  CHOOSE id \in 1..(MaxEditorPanels * (MaxPanelHistory + 2)) :
    /\ \A i \in 1..Len(e.localPanels) : e.localPanels[i].id # id
    /\ \A k \in 1..Len(e.history) :
         \A i \in 1..Len(e.history[k]) : e.history[k][i].id # id

\* prev.filter(p => p.id !== id)
RECURSIVE FilterPanel(_, _)
FilterPanel(panels, id) ==
  IF panels = <<>> THEN <<>>
  ELSE IF Head(panels).id = id THEN FilterPanel(Tail(panels), id)
  ELSE <<Head(panels)>> \o FilterPanel(Tail(panels), id)

\* addPanel(panel) for a rectangle with the bounding box `box`
AddPanelOp(e, box) ==
  PushPanelHistory(
    [e EXCEPT !.localPanels =
       Append(@, [id |-> NewPanelId(e), index |-> Len(e.localPanels),
                  x |-> box.x, y |-> box.y, w |-> box.w, h |-> box.h])],
    e.localPanels)

\* deletePanel(id)
DeletePanelOp(e, id) ==
  PushPanelHistory(
    [e EXCEPT !.localPanels =
       [i \in 1..Len(FilterPanel(@, id)) |->
          [FilterPanel(@, id)[i] EXCEPT !.index = i - 1]]],
    e.localPanels)

\* undo(): history[historyIndex - 1] is the entry at position historyIndex
UndoOp(e) ==
  IF e.historyIndex > 0
  THEN [e EXCEPT !.localPanels = e.history[e.historyIndex],
                 !.historyIndex = @ - 1]
  ELSE e

\* redo(): history[historyIndex + 1] is the entry at position historyIndex + 2
RedoOp(e) ==
  IF e.historyIndex < Len(e.history) - 1
  THEN [e EXCEPT !.localPanels = e.history[e.historyIndex + 2],
                 !.historyIndex = @ + 1]
  ELSE e

\* the SceneEditor of a scene with one or two panels
InitPanelHistory ==
  /\ mounted = "sceneEditor"
  /\ \E n \in 1..2 : \E boxes \in [1..n -> DrawnBoxes] :
       localPanels = [i \in 1..n |->
                        [id |-> i, index |-> i - 1, x |-> boxes[i].x,
                         y |-> boxes[i].y, w |-> boxes[i].w, h |-> boxes[i].h]]
  /\ readingDirection = "ltr"
  /\ panelHistory = <<>>
  /\ historyIndex = -1
  /\ lastEdit = NoEdit
  /\ NoTextEditor
  /\ NoFlowEditor
  /\ NoDashboard
  /\ NoBackend
  /\ NoPreview
  /\ NoPanelSave
  /\ NoReader

\* a rectangle is drawn
AddPanel ==
  /\ Len(localPanels) < MaxEditorPanels
  /\ Len(panelHistory) < MaxPanelHistory
  /\ \E box \in DrawnBoxes : SceneEditorCommit("addPanel", AddPanelOp(Editor, box))

\* the delete button of a panel
DeletePanel ==
  /\ Len(panelHistory) < MaxPanelHistory
  /\ \E i \in 1..Len(localPanels) :
       SceneEditorCommit("deletePanel", DeletePanelOp(Editor, localPanels[i].id))

\* the undo button
Undo ==
  /\ mounted = "sceneEditor"
  /\ SceneEditorCommit("undo", UndoOp(Editor))

\* the redo button
Redo ==
  /\ mounted = "sceneEditor"
  /\ SceneEditorCommit("redo", RedoOp(Editor))

NextPanelHistory ==
  \/ AddPanel
  \/ DeletePanel
  \/ SortButton
  \/ Undo
  \/ Redo

SpecPanelHistory == InitPanelHistory /\ [][NextPanelHistory]_vars

\* C24: undo directly after a panel edit restores the panel list to what it
\* was immediately before the edit, and redo directly after that undo
\* restores it to what it was immediately after the edit
C24_AsClaimed ==
  [][ /\ (mounted = "sceneEditor" /\ lastEdit.stage = "edited" /\ lastOp' = "undo")
           => localPanels' = lastEdit.before
      /\ (mounted = "sceneEditor" /\ lastEdit.stage = "undone" /\ lastOp' = "redo")
           => localPanels' = lastEdit.after ]_vars

(* ----------------------------- savePanels ------------------------------ *)
\* The panels table holds the rows of the scene; a row gets its id from the
\* database when it is inserted. panel_texts rows and panel-scoped
\* story_audio rows carry the id of their panel (refs). The schema is not
\* part of the sources: whether deleting a panel also deletes the rows that
\* carry its id is left open (`cascade`).
MaxPanelSaves == 2

\* the rows that carry the id of a panel, as tried
PanelRefs == {[kind |-> "text", panel_id |-> 1], [kind |-> "audio", panel_id |-> 2]}

\* the editor and the backend as one record
PanelSave ==
  [localPanels |-> localPanels, saving |-> saving, pending |-> pending, db |-> db]

\* savePanels() up to the first await; `before` remembers the rows in
\* storage when the save began
SavePanelsOp(v) ==
  [v EXCEPT !.saving = TRUE,
            !.pending = @ \cup {[kind |-> "savePanels", stage |-> "delete",
                                 closure |-> v.localPanels,
                                 before |-> v.db.panels]},
            !.db.saves = @ + 1]

\* the rows insert(panelsToInsert).select() adds for the request r
InsertedRows(v, r) ==
  {[id |-> v.db.nextId + i - 1, order_index |-> r.closure[i].index] :
     i \in 1..Len(r.closure)}

\* the delete has been answered; its error is not looked at
PanelsDeleteSettledOp(v, r, ok, cascade) ==
  LET deleted == [v EXCEPT !.db.panels = IF ok THEN {} ELSE @,
                           !.db.refs = IF ok /\ cascade THEN {} ELSE @]
  IN  IF Len(r.closure) > 0
      THEN [deleted EXCEPT !.pending = (@ \ {r}) \cup {[r EXCEPT !.stage = "insert"]}]
      ELSE [deleted EXCEPT !.pending = @ \ {r}, !.saving = FALSE]

\* the insert has been answered: if (error) throw error, finally setSaving(false)
PanelsInsertSettledOp(v, r, ok) ==
  IF ok
  THEN [v EXCEPT !.db.panels = @ \cup InsertedRows(v, r),
                 !.db.nextId = @ + Len(r.closure),
                 !.pending = @ \ {r},
                 !.saving = FALSE]
  ELSE [v EXCEPT !.pending = @ \ {r}, !.saving = FALSE]

\* the SceneEditor of a scene with two persisted panels
InitPanelSave ==
  /\ mounted = "sceneEditor"
  /\ localPanels = [i \in 1..2 |->
                      [id |-> i, index |-> i - 1, x |-> 0, y |-> 0, w |-> 100,
                       h |-> 60, dbId |-> i]]
  /\ readingDirection = "ltr"
  /\ panelHistory = <<>>
  /\ historyIndex = -1
  /\ lastEdit = NoEdit
  /\ saving = FALSE
  /\ pending = {}
  /\ \E refs \in SUBSET PanelRefs :
       db = [panels |-> {[id |-> 1, order_index |-> 0], [id |-> 2, order_index |-> 1]},
             refs |-> refs, nextId |-> 3, saves |-> 0]
  /\ NoTextEditor
  /\ NoFlowEditor
  /\ NoDashboard
  /\ NoPreview
  /\ NoReader

\* one step of a save
PanelSaveCommit(op, v) ==
  /\ mounted = "sceneEditor"
  /\ saving' = v.saving
  /\ pending' = v.pending
  /\ db' = v.db
  /\ lastOp' = op
  /\ UNCHANGED <<propVars, mounted, readerVars, managerVars, textVars, flowVars,
                 dashboardVars, sceneEditorVars, previewVars>>

\* the save button, disabled while saving
SaveButton ==
  /\ ~saving
  /\ db.saves < MaxPanelSaves
  /\ PanelSaveCommit("savePanels", SavePanelsOp(PanelSave))

\* the backend answers the delete
PanelsDeleteSettled ==
  \E r \in pending : \E ok \in BOOLEAN : \E cascade \in BOOLEAN :
    /\ r.stage = "delete"
    /\ PanelSaveCommit(IF Len(r.closure) > 0 THEN "panelsDeleteSettled"
                                             ELSE "panelsSaved",
                       PanelsDeleteSettledOp(PanelSave, r, ok, cascade))

\* the backend answers the insert
PanelsInsertSettled ==
  \E r \in pending : \E ok \in BOOLEAN :
    /\ r.stage = "insert"
    /\ PanelSaveCommit(IF ok THEN "panelsSaved" ELSE "panelsSaveFailed",
                       PanelsInsertSettledOp(PanelSave, r, ok))

NextPanelSave ==
  \/ DeletePanel
  \/ SaveButton
  \/ PanelsDeleteSettled
  \/ PanelsInsertSettled

SpecPanelSave == InitPanelSave /\ [][NextPanelSave]_vars

\* the storage ids of the persisted panels that are still in the editor
KeptPanelIds ==
  {localPanels[i].dbId :
     i \in {j \in 1..Len(localPanels) : "dbId" \in DOMAIN localPanels[j]}}

\* C25: after a save every panel that was persisted before and is still in
\* the editor is in storage under its id, and every row that carries the id
\* of such a panel refers to a panel in storage
C25_AsClaimed ==
  (mounted = "sceneEditor" /\ lastOp = "panelsSaved")
    => /\ \A id \in KeptPanelIds : \E row \in db.panels : row.id = id
       /\ \A ref \in db.refs :
            ref.panel_id \in KeptPanelIds
              => \E row \in db.panels : row.id = ref.panel_id

\* C26: when a save fails, the panels that were in storage when it began are
\* still in storage
C26_AsClaimed ==
  [][(mounted = "sceneEditor" /\ lastOp' = "panelsSaveFailed")
       => \A r \in pending \ pending' :
            /\ r.before \subseteq db'.panels
            /\ Cardinality(db'.panels) >= Cardinality(r.before)]_vars

(* ============================ clip paths =============================== *)
\* src/src/app/story/[id]/StoryReader.tsx generateClipPath and
\* src/src/components/AudioManager.tsx getClipPath, applied to the panel on
\* show. Coordinates are integers; a template literal formats a number with
\* Number::toString. Brush panels are not among the inputs (their outline is
\* computed with Math.sqrt).
MaxPreviewPanels == 2
DefaultImageWidth == 800
DefaultImageHeight == 600

DecimalDigits == <<"0", "1", "2", "3", "4", "5", "6", "7", "8", "9">>

\* Number::toString(n) for an integer n below 10^21: the decimal digits,
\* preceded by "-" for a negative number
RECURSIVE NumberToString(_)
NumberToString(n) ==
  IF n < 0 THEN "-" \o NumberToString(0 - n)
  ELSE IF n < 10 THEN DecimalDigits[n + 1]
  ELSE NumberToString(n \div 10) \o DecimalDigits[(n % 10) + 1]

\* variant: ellipse(<cx>px <cy>px at <rx>px <ry>px)
EllipsePathCentreFirst(e) ==
  "ellipse(" \o NumberToString(e.centerX) \o "px " \o NumberToString(e.centerY)
    \o "px at " \o NumberToString(e.rx) \o "px " \o NumberToString(e.ry) \o "px)"

\* `ellipse(${e.rx}px ${e.ry}px at ${e.centerX}px ${e.centerY}px)`
EllipsePath(e) ==
  "ellipse(" \o NumberToString(e.rx) \o "px " \o NumberToString(e.ry)
    \o "px at " \o NumberToString(e.centerX) \o "px " \o NumberToString(e.centerY)
    \o "px)"

\* points.map(p => `${p.x}px ${p.y}px`).join(', ')
RECURSIVE JoinPoints(_)
JoinPoints(points) ==
  IF points = <<>> THEN ""
  ELSE NumberToString(Head(points).x) \o "px " \o NumberToString(Head(points).y)
         \o "px" \o (IF Len(points) > 1 THEN ", " ELSE "") \o JoinPoints(Tail(points))

\* `inset(${top}px ${right}px ${bottom}px ${left}px)`
InsetPath(panel, imageWidth, imageHeight) ==
  "inset(" \o NumberToString(panel.y) \o "px "
    \o NumberToString(imageWidth - panel.x - panel.width) \o "px "
    \o NumberToString(imageHeight - panel.y - panel.height) \o "px "
    \o NumberToString(panel.x) \o "px)"

\* generateClipPath(panel) of the reader; a null image size counts as 0 in
\* the subtraction
GenerateClipPath(panel, scene) ==
  IF panel.shape = "polygon" /\ ~panel.points.isNull
  THEN "polygon(" \o JoinPoints(panel.points.list) \o ")"
  ELSE IF panel.shape = "ellipse" /\ ~panel.ellipse_data.isNull
  THEN EllipsePath(panel.ellipse_data)
  ELSE InsetPath(panel, scene.image_width, scene.image_height)

\* getClipPath() of the AudioManager for currentPanel = panel
GetClipPath(panel, scene) ==
  IF panel.shape = "polygon" /\ ~panel.points.isNull
  THEN "polygon(" \o JoinPoints(panel.points.list) \o ")"
  ELSE IF panel.shape = "ellipse" /\ ~panel.ellipse_data.isNull
  THEN EllipsePath(panel.ellipse_data)
  ELSE InsetPath(panel,
                 IF scene.image_width # 0 THEN scene.image_width ELSE DefaultImageWidth,
                 IF scene.image_height # 0 THEN scene.image_height ELSE DefaultImageHeight)

NullData == [isNull |-> TRUE, centerX |-> 0, centerY |-> 0, rx |-> 0, ry |-> 0]

NullPoints == [isNull |-> TRUE, list |-> <<>>]

\* the ellipses of the inputs: centre (100,100), rx 50, ry 30 among them
EllipseData ==
  {[isNull |-> FALSE, centerX |-> cx, centerY |-> cy, rx |-> rx, ry |-> ry] :
     cx \in {100, 7}, cy \in {100, 1250}, rx \in {50, 9}, ry \in {30, 105}}

\* a panel row with the bounding box of its shape
PanelRow(shape, data, points) ==
  [shape |-> shape, x |-> 50, y |-> 70, width |-> 100, height |-> 60,
   ellipse_data |-> data, points |-> points]

PreviewPanels ==
  {PanelRow("ellipse", e, NullPoints) : e \in EllipseData}
    \cup {PanelRow("ellipse", NullData, NullPoints),
          PanelRow("rectangle", NullData, NullPoints),
          PanelRow("polygon", NullData,
                   [isNull |-> FALSE,
                    list |-> <<[x |-> 0, y |-> 0], [x |-> 120, y |-> 0],
                               [x |-> 60, y |-> 90]>>])}

\* the state of the preview as one record
Preview ==
  [scene |-> previewScene, currentPanelIndex |-> previewPanelIndex]

\* sortedPanels[currentPanelIndex]
PreviewPanel(v) == v.scene.panels[v.currentPanelIndex + 1]

\* goToPrevPanel() in a story of one scene
GoToPrevPanelOp(v) ==
  IF v.currentPanelIndex > 0
  THEN [v EXCEPT !.currentPanelIndex = @ - 1]
  ELSE v

\* goToNextPanel() in a story of one scene
GoToNextPanelOp(v) ==
  IF v.currentPanelIndex < Len(v.scene.panels) - 1
  THEN [v EXCEPT !.currentPanelIndex = @ + 1]
  ELSE v

\* the style of a render
RenderClipPath(v) ==
  [reader |-> GenerateClipPath(PreviewPanel(v), v.scene),
   manager |-> GetClipPath(PreviewPanel(v), v.scene)]

\* a scene of one or two panels on show at its first panel
InitPreview ==
  /\ mounted = "preview"
  /\ \E n \in 1..MaxPreviewPanels : \E ps \in [1..n -> PreviewPanels] :
     \E w \in {0, 1000} :
       previewScene = [image_width |-> w, image_height |-> w, panels |-> ps]
  /\ previewPanelIndex = 0
  /\ clipPath = RenderClipPath(Preview)
  /\ NoTextEditor
  /\ NoFlowEditor
  /\ NoDashboard
  /\ NoSceneEditor
  /\ NoBackend
  /\ NoPanelSave
  /\ NoReader

\* one handled event of the preview and the render that follows
PreviewCommit(op, v) ==
  /\ mounted = "preview"
  /\ previewScene' = v.scene
  /\ previewPanelIndex' = v.currentPanelIndex
  /\ clipPath' = RenderClipPath(v)
  /\ lastOp' = op
  /\ UNCHANGED <<propVars, mounted, readerVars, managerVars, panelSaveVars,
                 textVars,
                 flowVars, dashboardVars, sceneEditorVars, backendVars>>

\* the "previous panel" button
GoToPrevPanel ==
  /\ mounted = "preview"
  /\ PreviewCommit("prevPanel", GoToPrevPanelOp(Preview))

\* the "next panel" button
GoToNextPanel ==
  /\ mounted = "preview"
  /\ PreviewCommit("nextPanel", GoToNextPanelOp(Preview))

NextPreview ==
  \/ GoToPrevPanel
  \/ GoToNextPanel

SpecPreview == InitPreview /\ [][NextPreview]_vars

\* the ellipse data of the panel on show
ShownEllipse == previewScene.panels[previewPanelIndex + 1].ellipse_data

\* an ellipse panel with its centre and radii is on show
EllipseShown ==
  /\ mounted = "preview"
  /\ previewScene.panels[previewPanelIndex + 1].shape = "ellipse"
  /\ ~ShownEllipse.isNull

\* C21: the clip path of an ellipse panel with centre (cx, cy) and radii rx,
\* ry is the string ellipse(<rx>px <ry>px at <cx>px <cy>px), in the reader
\* and in the audio manager; for centre (100,100), rx 50, ry 30 it is
\* ellipse(50px 30px at 100px 100px)
C21_EllipseClipPath ==
  EllipseShown
    => /\ clipPath.reader =
            "ellipse(" \o ToString(ShownEllipse.rx) \o "px "
              \o ToString(ShownEllipse.ry) \o "px at "
              \o ToString(ShownEllipse.centerX) \o "px "
              \o ToString(ShownEllipse.centerY) \o "px)"
       /\ clipPath.manager = clipPath.reader
       /\ (/\ ShownEllipse.centerX = 100 /\ ShownEllipse.centerY = 100
           /\ ShownEllipse.rx = 50 /\ ShownEllipse.ry = 30)
            => clipPath.reader = "ellipse(50px 30px at 100px 100px)"

\* the second panel of the scene is the ellipse with centre (100,100), rx 50,
\* ry 30 and is on show after "next panel"
C21_Witness ==
  /\ EllipseShown
  /\ lastOp = "nextPanel"
  /\ previewPanelIndex = 1
  /\ ShownEllipse.centerX = 100 /\ ShownEllipse.centerY = 100
  /\ ShownEllipse.rx = 50 /\ ShownEllipse.ry = 30
  /\ clipPath.manager = "ellipse(50px 30px at 100px 100px)"

(* ================= the reader with back-navigation ==================== *)
\* src/unnamed/part_000: the earlier revision of the StoryReader. It has no
\* audio and changes the scene in the handler itself; ArrowLeft and the left
\* click zone call goPrev(). It uses the reader's variables with
\* mounted = "earlierReader".

\* goNext() of the earlier revision
EarlierGoNext(s) ==
  IF s.showChoices \/ s.storyEnded THEN s
  ELSE IF IsAtDecisionPoint(story, choices, s.currentSceneId, s.currentPanelIndex)
  THEN [s EXCEPT !.showChoices = TRUE]
  ELSE IF s.currentPanelIndex < PanelCount(story, s.currentSceneId) - 1
  THEN [s EXCEPT !.currentPanelIndex = @ + 1,
                 !.revealedPanels = @ \cup {s.currentPanelIndex + 1}]
  ELSE IF IsAtLastPanel(story, s.currentSceneId, s.currentPanelIndex)
  THEN IF IsEndingScene(choices, s.currentSceneId)
       THEN [s EXCEPT !.storyEnded = TRUE]
       ELSE IF NormalFlowConnection(choices, s.currentSceneId) # 0
       THEN [s EXCEPT !.history = PushHistory(s),
                      !.currentSceneId =
                         choices[NormalFlowConnection(choices, s.currentSceneId)].to_scene_id,
                      !.currentPanelIndex = 0]
       ELSE s
  ELSE s

\* goPrev() of the earlier revision
EarlierGoPrev(s) ==
  IF s.showChoices THEN [s EXCEPT !.showChoices = FALSE]
  ELSE IF s.storyEnded THEN [s EXCEPT !.storyEnded = FALSE]
  ELSE IF s.currentPanelIndex > 0
  THEN [s EXCEPT !.currentPanelIndex = @ - 1]
  ELSE IF Len(s.history) > 0
  THEN LET lastEntry == s.history[Len(s.history)]
       IN  [s EXCEPT !.history = SubSeq(@, 1, Len(@) - 1),
                     !.currentSceneId = lastEntry.sceneId,
                     !.currentPanelIndex = lastEntry.panelIndex,
                     !.revealedPanels = lastEntry.revealedPanels]
  ELSE s

\* handleChoice(choice) of the earlier revision
EarlierHandleChoice(s, c) ==
  [s EXCEPT !.history = PushHistory(s),
            !.currentSceneId = c.to_scene_id,
            !.currentPanelIndex = 0,
            !.showChoices = FALSE,
            !.storyEnded = FALSE]

\* the "read again" button of the earlier revision
EarlierRestart(s) ==
  [s EXCEPT !.currentSceneId = StartSceneId(story),
            !.currentPanelIndex = 0,
            !.storyEnded = FALSE,
            !.revealedPanels = {0},
            !.history = <<>>]

\* keydown Escape of the earlier revision, up to leaving the page
EarlierEscape(s) ==
  IF s.showChoices THEN [s EXCEPT !.showChoices = FALSE]
  ELSE IF s.storyEnded THEN [s EXCEPT !.storyEnded = FALSE]
  ELSE s

\* the earlier revision on a story without audio rows
InitEarlier ==
  /\ mounted = "earlierReader"
  /\ story \in Stories
  /\ choices \in ChoiceLists
  /\ audios = <<>>
  /\ ReaderInit
  /\ NoEditors
  /\ localAudios = <<>>
  /\ audioElements = <<>>
  /\ playingAudioId = 0
  /\ playPromises = {}

\* one handled event of the earlier revision: the handler's state updates,
\* the render, and the effect that resets the revealed panels when the scene
\* has changed
EarlierCommit(op, new) ==
  /\ mounted = "earlierReader"
  /\ Len(new.history) <= MaxHistory
  /\ currentSceneId' = new.currentSceneId
  /\ currentPanelIndex' = new.currentPanelIndex
  /\ showChoices' = new.showChoices
  /\ storyEnded' = new.storyEnded
  /\ readingMode' = new.readingMode
  /\ revealedPanels' =
       ResetRevealedEffect(currentSceneId, new.currentSceneId, new.revealedPanels)
  /\ history' = new.history
  /\ lastOp' = op
  /\ UNCHANGED <<propVars, mounted, isSceneTransitioning, showLanguageMenu,
                 sceneTimers, frameCallbacks, isMuted, masterVolume, elements,
                 activeAudios, startTimers, fades, managerVars, editorVars>>

\* keydown ArrowRight / Space
EarlierKeyArrowRight ==
  /\ mounted = "earlierReader"
  /\ EarlierCommit("goNext",
                   IF ~showChoices /\ ~storyEnded THEN EarlierGoNext(Cur) ELSE Cur)

\* keydown ArrowLeft
EarlierKeyArrowLeft ==
  /\ mounted = "earlierReader"
  /\ EarlierCommit("goPrev", EarlierGoPrev(Cur))

\* a button of the choice list
EarlierChoiceButton ==
  /\ showChoices
  /\ \E i \in SceneChoices(choices, currentSceneId) :
       EarlierCommit("choice", EarlierHandleChoice(Cur, choices[i]))

\* the "read again" button of the story-ended overlay
EarlierRestartButton ==
  /\ storyEnded
  /\ EarlierCommit("restart", EarlierRestart(Cur))

\* keydown Escape
EarlierKeyEscape ==
  /\ mounted = "earlierReader"
  /\ EarlierCommit("other", EarlierEscape(Cur))

\* keydown 'm'
EarlierKeyM ==
  /\ mounted = "earlierReader"
  /\ EarlierCommit("mode",
       [Cur EXCEPT !.readingMode = IF @ = "focus" THEN "panel-to-panel" ELSE "focus"])

NextEarlier ==
  \/ EarlierKeyArrowRight
  \/ EarlierKeyArrowLeft
  \/ EarlierChoiceButton
  \/ EarlierRestartButton
  \/ EarlierKeyEscape
  \/ EarlierKeyM

SpecEarlier == InitEarlier /\ [][NextEarlier]_vars

\* ArrowLeft is handled at panel index 0 with a non-empty history, no choice
\* list and no end screen on show
GoesBackAScene ==
  /\ mounted = "earlierReader"
  /\ lastOp' = "goPrev"
  /\ ~showChoices
  /\ ~storyEnded
  /\ currentPanelIndex = 0
  /\ history # <<>>

\* C23: going back at panel index 0 with a non-empty history pops the most
\* recent entry and leaves the reader at exactly that entry's scene, panel
\* index and revealed-panel set
C23_AsClaimed ==
  [][GoesBackAScene
       => /\ history' = SubSeq(history, 1, Len(history) - 1)
          /\ currentSceneId' = history[Len(history)].sceneId
          /\ currentPanelIndex' = history[Len(history)].panelIndex
          /\ revealedPanels' = history[Len(history)].revealedPanels]_vars

====
